---- MODULE Spec2Model ----
(***************************************************************************)
(* A model of clags.h (the declarative command line parser used by tod):   *)
(* the config validator, the type verifiers, the list accumulator and the  *)
(* token scanner clags_parse with its subcommand recursion; and of tod.c:  *)
(* the line search, the file reader and the argument loop of main.         *)
(*                                                                         *)
(* Strings of the program are sequences of one-character strings, so that  *)
(* prefixes, markers and single characters can be taken apart as the C     *)
(* code does.  C pointers that may be NULL are modelled by sentinels of    *)
(* the same shape as the values they stand beside.                         *)
(***************************************************************************)
EXTENDS Integers, Sequences, FiniteSets, TLC

VARIABLES
    world,      \* the declarations built by the caller: configs, their args and options
    cfg,        \* per config, the fields clags sets: name, parent, invalid, error, allocs
    mem,        \* per config and argument index, the caller's variable the argument binds
    ignored,    \* per config, the caller's list behind options.ignored_args
    stack,      \* the active clags_parse calls, innermost last, with their locals
    pc,         \* "idle": no call is running, "scan": in the token loop, "return": unwinding
    result,     \* the value the last (or the unwinding) clags_parse call returns
    missing,    \* the names listed by the last "Missing required arguments" message
    last,       \* what the scanner did with the token it handled last
    call,       \* the config and arguments of the caller's last clags_parse call
    calls,      \* clags_parse calls the caller may still make
    tod,        \* tod.c: the function that runs, its arguments and its locals
    stdout      \* tod.c: what the program printed so far, one record per printf group

vars == <<world, cfg, mem, ignored, stack, pc, result, missing, last, call, calls,
          tod, stdout>>

\* the state of tod.c, which the parser never touches
todvars == <<tod, stdout>>

\* the state of the parser, which tod.c never touches
clagsvars == <<world, cfg, mem, ignored, stack, pc, result, missing, last, call, calls>>

-----------------------------------------------------------------------------
(* Strings, characters and NULL *)

\* a NULL char*: no string of the program has a several-character element
NULL == <<"NULL">>
\* the '\0' of a short_flag that is not set
NUL == "NUL"
\* a NULL arg_name, a NULL clags_config_t*
NullName == "(null)"
NoConfig == "NULL"

DoubleDash == <<"-", "-">>

Digits == {"0", "1", "2", "3", "4", "5", "6", "7", "8", "9"}
isdigit(c) == c \in Digits

UpperChars == <<"A","B","C","D","E","F","G","H","I","J","K","L","M",
                "N","O","P","Q","R","S","T","U","V","W","X","Y","Z">>
LowerChars == <<"a","b","c","d","e","f","g","h","i","j","k","l","m",
                "n","o","p","q","r","s","t","u","v","w","x","y","z">>

tolower(c) ==
    IF \E i \in 1..Len(UpperChars) : UpperChars[i] = c
    THEN LowerChars[CHOOSE i \in 1..Len(UpperChars) : UpperChars[i] = c]
    ELSE c

\* strcmp(a, b) == 0
StrEq(a, b) == a = b
\* strcasecmp(a, b) == 0
StrCaseEq(a, b) ==
    /\ Len(a) = Len(b)
    /\ \A i \in 1..Len(a) : tolower(a[i]) = tolower(b[i])
\* strncmp(s, prefix, strlen(prefix)) == 0
HasPrefix(s, prefix) ==
    /\ Len(s) >= Len(prefix)
    /\ SubSeq(s, 1, Len(prefix)) = prefix
\* s + n
Skip(s, n) == SubSeq(s, n + 1, Len(s))
\* s[n] of a C string (0-based), '\0' at its end
CharAt(s, n) == IF n < Len(s) THEN s[n + 1] ELSE NUL

-----------------------------------------------------------------------------
(* Declarations: clags_arg_t, clags_options_t *)

\* the extension payload (the union of verify, choices, subcmds): NULL or one of them
NoData == [kind |-> "NULL", items |-> <<>>, case_insensitive |-> FALSE, verify |-> "NULL"]
Choices(values, ci) ==
    [kind |-> "choices", items |-> values, case_insensitive |-> ci, verify |-> "NULL"]
\* entries are [name |-> string, config |-> config id or NoConfig]
Subcmds(entries) ==
    [kind |-> "subcmds", items |-> entries, case_insensitive |-> FALSE, verify |-> "NULL"]
CustomVerify(f) ==
    [kind |-> "verify", items |-> <<>>, case_insensitive |-> FALSE, verify |-> f]

\* clags_positional(var, name, desc, ...)
Positional(hasVar, name, vtype, isList, isOptional, payload) ==
    [type |-> "Positional", short_flag |-> NUL, long_flag |-> NULL, variable |-> hasVar,
     arg_name |-> name, value_type |-> vtype, is_list |-> isList, optional |-> isOptional,
     data |-> payload, exit |-> FALSE, flag_type |-> "BoolFlag"]

\* clags_option(sflag, lflag, var, name, desc, ...)
Option(sflag, lflag, hasVar, vtype, isList, payload) ==
    [type |-> "Option", short_flag |-> sflag, long_flag |-> lflag, variable |-> hasVar,
     arg_name |-> "VALUE", value_type |-> vtype, is_list |-> isList, optional |-> FALSE,
     data |-> payload, exit |-> FALSE, flag_type |-> "BoolFlag"]

\* clags_flag(sflag, lflag, var, desc, ...)
Flag(sflag, lflag, hasVar, ftype, isExit) ==
    [type |-> "Flag", short_flag |-> sflag, long_flag |-> lflag, variable |-> hasVar,
     arg_name |-> NullName, value_type |-> "String", is_list |-> FALSE, optional |-> FALSE,
     data |-> NoData, exit |-> isExit, flag_type |-> ftype]

FlagTypes == {"BoolFlag", "ConfigFlag", "CountFlag", "CallbackFlag"}

\* clags_options_t, the fields the parser reads
Options(ignorePrefix, hasIgnoredArgs, listTerminator, allowToggle, dupStrings) ==
    [ignore_prefix |-> ignorePrefix, ignored_args |-> hasIgnoredArgs,
     list_terminator |-> listTerminator, allow_option_parsing_toggle |-> allowToggle,
     duplicate_strings |-> dupStrings]

NoOptions == Options(NULL, FALSE, NULL, FALSE, FALSE)

\* clags_config(arguments, ...): an empty argument array is the NULL array
Config(arguments, opts) == [args |-> arguments, options |-> opts]

-----------------------------------------------------------------------------
(* The list accumulator: clags_list_t *)

CLAGS_LIST_INIT_CAPACITY == 8

EmptyList == [items |-> <<>>, count |-> 0, capacity |-> 0]

\* a growth step that adds the initial capacity instead of doubling: what C23 rules out
GrowList_Linear(list) ==
    IF list.count >= list.capacity
    THEN [list EXCEPT !.capacity = list.capacity + CLAGS_LIST_INIT_CAPACITY]
    ELSE list

\* the growth step of clags__append_to_list, before the verifier fills the slot
GrowList(list) ==
    IF list.count >= list.capacity
    THEN [list EXCEPT !.capacity =
            IF list.capacity = 0 THEN CLAGS_LIST_INIT_CAPACITY ELSE list.capacity * 2]
    ELSE list

\* an append that keeps only the value appended last: what C24 rules out
AppendToList_Replace(list, verdict) ==
    IF verdict.ok
    THEN [GrowList(list) EXCEPT !.items = <<verdict.value>>, !.count = 1]
    ELSE GrowList(list)

\* clags__append_to_list: the slot is kept only when the verifier accepted the value
AppendToList(list, verdict) ==
    LET grown == GrowList(list) IN
    IF verdict.ok
    THEN [grown EXCEPT !.items = Append(grown.items, verdict.value),
                       !.count = grown.count + 1]
    ELSE grown

-----------------------------------------------------------------------------
(* The type verifiers.  A verdict is what the verifier returns (ok) and the *)
(* value it stores through pvalue when pvalue is not NULL (value).          *)

Accept(v) == [ok |-> TRUE, value |-> v]
Reject == [ok |-> FALSE, value |-> NULL]

\* clags__verify_string: binds the token itself
verify_string(arg) == Accept(arg)

BoolTrue == {<<"t","r","u","e">>, <<"y","e","s">>, <<"y">>}
BoolFalse == {<<"f","a","l","s","e">>, <<"n","o">>, <<"n">>}

\* clags__verify_bool
verify_bool(arg) ==
    IF \E w \in BoolTrue : StrCaseEq(arg, w) THEN Accept(TRUE)
    ELSE IF \E w \in BoolFalse : StrCaseEq(arg, w) THEN Accept(FALSE)
    ELSE Reject

\* the limits of <stdint.h> the 8-bit verifiers test against
INT8_MIN == -128
INT8_MAX == 127
UINT8_MAX == 255

\* isspace, for the white space strtol skips
isspace(c) == c \in {" ", "\t", "\n", "\r"}

HexChars == <<"0","1","2","3","4","5","6","7","8","9","a","b","c","d","e","f">>

\* the value of c as a digit; 36 when c is no digit of base 16
DigitValue(c) ==
    IF \E i \in 1..Len(HexChars) : HexChars[i] = tolower(c)
    THEN (CHOOSE i \in 1..Len(HexChars) : HexChars[i] = tolower(c)) - 1
    ELSE 36

\* magnitudes are followed up to MaxMagnitude; a larger one is beyond the range of
\* every 8-bit kind, whether strtol reports ERANGE for it or not
MaxMagnitude == 100000

\* the index of the first character of s that is not white space
SkipSpace(s) ==
    CHOOSE i \in 0..Len(s) :
        /\ ~isspace(CharAt(s, i))
        /\ \A j \in 0..(i - 1) : isspace(CharAt(s, j))

\* the index after the digits of the base that start at index start
DigitsEnd(s, start, base) ==
    CHOOSE i \in start..Len(s) :
        /\ DigitValue(CharAt(s, i)) >= base
        /\ \A j \in start..(i - 1) : DigitValue(CharAt(s, j)) < base

\* the value of the digits from index start up to index end, digit by digit
Magnitude(s, start, end, base) ==
    LET acc[i \in start..end] ==
            IF i = start THEN 0
            ELSE IF acc[i - 1] > MaxMagnitude THEN acc[i - 1]
            ELSE acc[i - 1] * base + DigitValue(CharAt(s, i - 1))
    IN acc[end]

\* the digits of the base from index start on: where they end, and their value
Accumulate(s, start, base) ==
    [end |-> DigitsEnd(s, start, base),
     acc |-> Magnitude(s, start, DigitsEnd(s, start, base), base)]

\* the base strtol takes from the prefix at index i: 0x and a digit: 16, 0: 8, else 10
HasHexPrefix(s, i) ==
    /\ CharAt(s, i) = "0"
    /\ tolower(CharAt(s, i + 1)) = "x"
    /\ DigitValue(CharAt(s, i + 2)) < 16

BaseAt(s, i) == IF HasHexPrefix(s, i) THEN 16 ELSE IF CharAt(s, i) = "0" THEN 8 ELSE 10

\* what strtol made of the digits that start at index start: without a digit
\* nothing is converted and endptr is arg
Converted(negative, start, run) ==
    IF run.end = start
    THEN [end |-> 0, negative |-> FALSE, magnitude |-> 0]
    ELSE [end |-> run.end, negative |-> negative, magnitude |-> run.acc]

\* the number after the sign, with its first character at index i
Unsigned(s, negative, i, start) ==
    Converted(negative, start, Accumulate(s, start, BaseAt(s, i)))

\* the number with its sign at index i
Signed(s, i) ==
    Unsigned(s, CharAt(s, i) = "-",
             IF CharAt(s, i) \in {"+", "-"} THEN i + 1 ELSE i,
             IF CharAt(s, i) \in {"+", "-"}
             THEN (IF HasHexPrefix(s, i + 1) THEN i + 3 ELSE i + 1)
             ELSE (IF HasHexPrefix(s, i) THEN i + 2 ELSE i))

\* strtol(arg, &endptr, 0) and strtoul(arg, &endptr, 0) up to the sign: white
\* space, a sign, the base from the prefix, the digits; end is endptr - arg
strto(arg) == Signed(arg, SkipSpace(arg))

\* the tests of clags__verify_int8 on what strtol returned
Int8Verdict(arg, r, value) ==
    IF CharAt(arg, r.end) /= NUL THEN Reject
    ELSE IF r.magnitude > MaxMagnitude \/ value < INT8_MIN \/ value > INT8_MAX
    THEN Reject
    ELSE Accept(value)

\* the long of strtol
SignedValue(r) == IF r.negative THEN 0 - r.magnitude ELSE r.magnitude

\* clags__verify_int8
verify_int8(arg) == Int8Verdict(arg, strto(arg), SignedValue(strto(arg)))

\* the tests of clags__verify_uint8 on what strtoul returned: strtoul negates in
\* unsigned long, so a negative numeral other than -0 is a value above UINT8_MAX
UInt8Verdict(arg, r, minus) ==
    IF CharAt(arg, r.end) /= NUL THEN Reject
    ELSE IF r.magnitude > UINT8_MAX \/ (r.negative /\ r.magnitude > 0) \/ minus
    THEN Reject
    ELSE Accept(r.magnitude)

\* a verifier of the unsigned kind that lets a leading minus pass: what C20 rules out
verify_uint8_AnySign(arg) == UInt8Verdict(arg, strto(arg), FALSE)

\* clags__verify_uint8
verify_uint8(arg) == UInt8Verdict(arg, strto(arg), CharAt(arg, 0) = "-")

\* unsigned 64-bit values are written as their decimal digits, most significant
\* first and without leading zeros: the model's integers are narrower
UINT64_MAX == <<1,8,4,4,6,7,4,4,0,7,3,7,0,9,5,5,1,6,1,5>>

\* the digits without leading zeros
Normalized(d) ==
    IF \A i \in 1..Len(d) : d[i] = 0 THEN <<0>>
    ELSE SubSeq(d, CHOOSE i \in 1..Len(d) : d[i] /= 0 /\ \A j \in 1..(i - 1) : d[j] = 0,
                Len(d))

\* a < b
BigLess(a, b) ==
    \/ Len(a) < Len(b)
    \/ /\ Len(a) = Len(b)
       /\ \E i \in 1..Len(a) : a[i] < b[i] /\ \A j \in 1..(i - 1) : a[j] = b[j]

\* the decimal digits of a small number
RECURSIVE SmallDigits(_)
SmallDigits(n) == IF n < 10 THEN <<n>> ELSE Append(SmallDigits(n \div 10), n % 10)

\* a * m for a small m
MulSmall(a, m) ==
    LET carry[i \in 0..Len(a)] ==
            IF i = 0 THEN 0 ELSE (a[Len(a) - i + 1] * m + carry[i - 1]) \div 10
    IN Normalized(SmallDigits(carry[Len(a)])
                    \o [k \in 1..Len(a) |-> (a[k] * m + carry[Len(a) - k]) % 10])

\* a / m for a small m
DivSmall(a, m) ==
    LET rem[i \in 0..Len(a)] == IF i = 0 THEN 0 ELSE (rem[i - 1] * 10 + a[i]) % m
    IN Normalized([k \in 1..Len(a) |-> (rem[k - 1] * 10 + a[k]) \div m])

\* a - b for a >= b
BigSub(a, b) ==
    LET digit(x, i) == IF i <= Len(x) THEN x[Len(x) - i + 1] ELSE 0
        borrow[i \in 0..Len(a)] ==
            IF i = 0 THEN 0
            ELSE IF digit(a, i) - digit(b, i) - borrow[i - 1] < 0 THEN 1 ELSE 0
    IN Normalized([k \in 1..Len(a) |->
                    (digit(a, Len(a) - k + 1) - digit(b, Len(a) - k + 1)
                        - borrow[Len(a) - k] + 10) % 10])

\* a * m^n and a / m^n
RECURSIVE MulPower(_, _, _)
MulPower(a, m, n) == IF n = 0 THEN a ELSE MulPower(MulSmall(a, m), m, n - 1)
RECURSIVE DivPower(_, _, _)
DivPower(a, m, n) == IF n = 0 THEN a ELSE DivPower(DivSmall(a, m), m, n - 1)

\* what strtoull made of the digits from start to end after the sign: ULLONG_MAX
\* and ERANGE beyond the range, the negation in unsigned long long after a minus
ConvertedU64(s, negative, start, end, digits) ==
    IF end = start
    THEN [end |-> 0, erange |-> FALSE, value |-> <<0>>]
    ELSE IF BigLess(UINT64_MAX, digits)
    THEN [end |-> end, erange |-> TRUE, value |-> UINT64_MAX]
    ELSE [end |-> end, erange |-> FALSE,
          value |-> IF negative /\ digits /= <<0>>
                    THEN BigSub(UINT64_MAX, BigSub(digits, <<1>>))
                    ELSE digits]

\* the decimal digits of s from index start up to index end
DigitsOf(s, start, end) ==
    Normalized([k \in 1..(end - start) |-> DigitValue(CharAt(s, start + k - 1))])

SignedU64(s, i, start) ==
    ConvertedU64(s, CharAt(s, i) = "-", start, DigitsEnd(s, start, 10),
                 DigitsOf(s, start, DigitsEnd(s, start, 10)))

SpacedU64(s, i) == SignedU64(s, i, IF CharAt(s, i) \in {"+", "-"} THEN i + 1 ELSE i)

\* strtoull(arg, &endptr, 10): white space, a sign, decimal digits
strtoull10(arg) == SpacedU64(arg, SkipSpace(arg))

\* the unit of a size: the base and the power of its factor; power -1 is no unit
SizeUnit(unit) ==
    IF unit = <<>> \/ StrEq(unit, <<"B">>)    THEN [base |-> 1024, power |-> 0]
    ELSE IF StrCaseEq(unit, <<"K","i","B">>) THEN [base |-> 1024, power |-> 1]
    ELSE IF StrCaseEq(unit, <<"K","B">>)     THEN [base |-> 1000, power |-> 1]
    ELSE IF StrCaseEq(unit, <<"M","i","B">>) THEN [base |-> 1024, power |-> 2]
    ELSE IF StrCaseEq(unit, <<"M","B">>)     THEN [base |-> 1000, power |-> 2]
    ELSE IF StrCaseEq(unit, <<"G","i","B">>) THEN [base |-> 1024, power |-> 3]
    ELSE IF StrCaseEq(unit, <<"G","B">>)     THEN [base |-> 1000, power |-> 3]
    ELSE IF StrCaseEq(unit, <<"T","i","B">>) THEN [base |-> 1024, power |-> 4]
    ELSE IF StrCaseEq(unit, <<"T","B">>)     THEN [base |-> 1000, power |-> 4]
    ELSE [base |-> 0, power |-> 0 - 1]

\* value <= UINT64_MAX / factor, without ERANGE
SizeInRange(r, unit) ==
    /\ ~r.erange
    /\ ~BigLess(DivPower(UINT64_MAX, unit.base, unit.power), r.value)

\* the tests of clags__verify_size on what strtoull returned
SizeVerdict(arg, r, unit) ==
    IF r.end = 0 THEN Reject
    ELSE IF unit.power < 0 THEN Reject
    ELSE IF ~SizeInRange(r, unit) \/ CharAt(arg, 0) = "-" THEN Reject
    ELSE Accept(MulPower(r.value, unit.base, unit.power))

\* clags__verify_size
verify_size(arg) ==
    SizeVerdict(arg, strtoull10(arg), SizeUnit(Skip(arg, strtoull10(arg).end)))

\* the entry test of clags__verify_choice
ChoiceMatches(choices, i, arg) ==
    \/ choices.case_insensitive /\ StrCaseEq(choices.items[i], arg)
    \/ ~choices.case_insensitive /\ StrEq(choices.items[i], arg)

\* a verifier that binds the last matching entry: what C22 rules out
verify_choice_Last(arg, hasPvalue, choices) ==
    IF ~hasPvalue THEN [ok |-> FALSE, value |-> 0]
    ELSE IF \E i \in 1..Len(choices.items) : ChoiceMatches(choices, i, arg)
    THEN Accept(CHOOSE i \in 1..Len(choices.items) :
                    /\ ChoiceMatches(choices, i, arg)
                    /\ \A j \in (i + 1)..Len(choices.items) : ~ChoiceMatches(choices, j, arg))
    ELSE [ok |-> FALSE, value |-> 0]

\* clags__verify_choice: binds the first matching entry (its index, 1-based; 0 is NULL);
\* fails without a pvalue
verify_choice(arg, hasPvalue, choices) ==
    IF ~hasPvalue THEN [ok |-> FALSE, value |-> 0]
    ELSE IF \E i \in 1..Len(choices.items) : ChoiceMatches(choices, i, arg)
    THEN Accept(CHOOSE i \in 1..Len(choices.items) :
                    /\ ChoiceMatches(choices, i, arg)
                    /\ \A j \in 1..(i - 1) : ~ChoiceMatches(choices, j, arg))
    ELSE [ok |-> FALSE, value |-> 0]

\* clags__verify_subcmd: the first entry whose name is the token (1-based; 0 is none)
SubcmdIndex(arg, subcmds) ==
    IF \E i \in 1..Len(subcmds.items) : StrEq(subcmds.items[i].name, arg)
    THEN CHOOSE i \in 1..Len(subcmds.items) :
            /\ StrEq(subcmds.items[i].name, arg)
            /\ \A j \in 1..(i - 1) : ~StrEq(subcmds.items[j].name, arg)
    ELSE 0

verify_subcmd(arg, subcmds) ==
    IF SubcmdIndex(arg, subcmds) > 0
    THEN Accept(SubcmdIndex(arg, subcmds))
    ELSE [ok |-> FALSE, value |-> 0]

\* pointers to choices: a clags_choices_t* is the declaration (config, index) the
\* set belongs to with its count, a clags_choice_t* is the set it points into and
\* the entry (1-based); both may be NULL
NoChoices == [owner |-> <<>>, count |-> 0]
NoChoice == [owner |-> <<>>, index |-> 0]

\* clags_choice_index: the 0-based index of the entry choice points to, -1 if it
\* points to no entry of choices or an argument is NULL
clags_choice_index(choices, choice) ==
    IF choices = NoChoices \/ choice = NoChoice THEN 0 - 1
    ELSE IF \E i \in 0..(choices.count - 1) :
                choice = [owner |-> choices.owner, index |-> i + 1]
    THEN choice.index - 1
    ELSE 0 - 1

\* the caller's verify functions: "is_word" takes a token that starts with a
\* lower-case letter and stores it
CustomAccepts(f, arg) ==
    f = "is_word" /\ Len(arg) > 0 /\ \E i \in 1..Len(LowerChars) : LowerChars[i] = arg[1]

\* clags__verify_custom
verify_custom(arg, data) ==
    IF CustomAccepts(data.verify, arg) THEN Accept(arg) ELSE Reject

\* clags__verify_funcs[value_type](config, arg_name, arg, pvalue, data)
Verify(value_type, arg, hasPvalue, data) ==
    CASE value_type = "String" -> verify_string(arg)
      [] value_type = "Bool"   -> verify_bool(arg)
      [] value_type = "Choice" -> verify_choice(arg, hasPvalue, data)
      [] value_type = "Custom" -> verify_custom(arg, data)
      [] value_type = "Subcmd" -> verify_subcmd(arg, data)
      [] value_type = "Int8"   -> verify_int8(arg)
      [] value_type = "UInt8"  -> verify_uint8(arg)
      [] value_type = "Size"   -> verify_size(arg)

\* what a caller's variable holds before anything is bound to it
InitialValue(a) ==
    IF a.type = "Flag"
    THEN CASE a.flag_type = "BoolFlag"     -> FALSE
           [] a.flag_type = "CountFlag"    -> 0
           [] a.flag_type = "ConfigFlag"   -> NoConfig
           [] a.flag_type = "CallbackFlag" -> 0      \* the calls of the callback
           [] OTHER                        -> 0
    ELSE IF a.is_list THEN EmptyList
    ELSE CASE a.value_type = "Bool"   -> FALSE
           [] a.value_type = "Choice" -> 0
           [] a.value_type = "Subcmd" -> 0
           \* an 8-bit variable is marked as not written by a value that no
           \* 8-bit verifier stores
           [] a.value_type \in {"Int8", "UInt8"} -> UINT8_MAX + 1
           \* a size that is not written has no digits
           [] a.value_type = "Size" -> <<>>
           [] OTHER                   -> NULL

\* what clags__set_arg leaves once the verifier has returned verdict
set_arg_with(verdict, hasVar, variable, is_list) ==
    [result   |-> verdict.ok,
     variable |-> IF is_list THEN AppendToList(variable, verdict)
                  ELSE IF verdict.ok /\ hasVar THEN verdict.value
                  ELSE variable,
     error    |-> IF verdict.ok THEN "keep" ELSE "Clags_Error_InvalidValue"]

\* clags__set_arg: the verdict, the variable after it, and the error it leaves
\* (variable is the value at the argument's variable; it is written only when the
\* argument has one)
set_arg(value_type, arg, hasVar, variable, data, is_list) ==
    set_arg_with(Verify(value_type, arg, is_list \/ hasVar, data), hasVar, variable, is_list)

\* a counting flag that records only that it occurred: what C34 rules out
set_flag_Seen(config, flag, variable) ==
    IF ~flag.variable THEN variable
    ELSE CASE flag.flag_type = "BoolFlag"     -> TRUE
           [] flag.flag_type = "ConfigFlag"   -> config
           [] flag.flag_type = "CountFlag"    -> 1
           [] flag.flag_type = "CallbackFlag" -> variable + 1

\* clags__set_flag: the flag's variable after one occurrence of the flag
set_flag(config, flag, variable) ==
    IF ~flag.variable THEN variable
    ELSE CASE flag.flag_type = "BoolFlag"     -> TRUE
           [] flag.flag_type = "ConfigFlag"   -> config
           [] flag.flag_type = "CountFlag"    -> variable + 1
           [] flag.flag_type = "CallbackFlag" -> variable + 1

\* clags_list_free: the items are released, count and capacity are 0
clags_list_free(list) == [list EXCEPT !.items = <<>>, !.count = 0, !.capacity = 0]

\* a free that reaches the lists of positionals only: what C36 rules out
FreedLists_Positionals(K, variables) ==
    [i \in 1..Len(K.args) |->
        IF K.args[i].type = "Positional" /\ K.args[i].is_list
        THEN clags_list_free(variables[i])
        ELSE variables[i]]

\* the loop of clags_config_free: the variables of config K after the lists
\* of its positionals and options are freed
FreedLists(K, variables) ==
    [i \in 1..Len(K.args) |->
        IF K.args[i].type \in {"Positional", "Option"} /\ K.args[i].is_list
        THEN clags_list_free(variables[i])
        ELSE variables[i]]

\* clags_config_free_allocs: the fields of a config after its duplicated strings
\* are released
clags_config_free_allocs(fields) == [fields EXCEPT !.allocs = clags_list_free(@)]

-----------------------------------------------------------------------------
(* The config validator *)

\* clags__validate_positional
validate_positional(pos) ==
    CASE pos.value_type = "Subcmd" -> pos.data.kind /= "NULL"
      [] pos.value_type = "Choice" -> pos.data.kind /= "NULL"
      [] pos.value_type = "Custom" -> pos.data.kind /= "NULL"
      [] OTHER -> TRUE

\* clags__validate_option
validate_option(opt) ==
    CASE opt.value_type = "Subcmd" -> FALSE
      [] opt.value_type = "Choice" -> opt.data.kind /= "NULL"
      [] opt.value_type = "Custom" -> opt.data.kind /= "NULL"
      [] OTHER -> TRUE

\* clags__validate_flag
validate_flag(flag) == flag.flag_type \in FlagTypes

\* the two ways clags__validate_config ends with false: through its defer label,
\* which sets config->error, and by a plain return, which does not
Valid == [result |-> TRUE, error |-> "keep"]
FailDefer == [result |-> FALSE, error |-> "Clags_Error_InvalidConfig"]
FailReturn == [result |-> FALSE, error |-> "keep"]

\* the locals of the walk over the declarations
ValidateStart ==
    [last_was_list |-> FALSE, subcmd_found |-> FALSE, optional_found |-> FALSE,
     last_pos_name |-> NullName]

\* the checks of one positional declaration, in the order of the code:
\* payload, required after optional, subcommand placement, list without terminator
PositionalRejected(config, pos, v) ==
    \/ ~validate_positional(pos)
    \/ v.optional_found /\ ~pos.optional
    \/ pos.value_type = "Subcmd" /\ v.last_pos_name /= NullName
    \/ pos.value_type /= "Subcmd" /\ v.subcmd_found
    \/ v.last_was_list /\ config.options.list_terminator = NULL

\* the locals after a declaration that passed
ValidateAdvance(a, v) ==
    IF a.type = "Positional"
    THEN [last_was_list  |-> a.is_list,
          subcmd_found   |-> v.subcmd_found \/ a.value_type = "Subcmd",
          optional_found |-> a.optional,
          last_pos_name  |-> a.arg_name]
    ELSE [v EXCEPT !.last_was_list = FALSE]

RECURSIVE ValidateArgs(_, _, _)
\* the loop of clags__validate_config from declaration i on
ValidateArgs(config, i, v) ==
    IF i > Len(config.args) THEN Valid
    ELSE LET a == config.args[i] IN
         CASE a.type = "Positional" ->
                IF PositionalRejected(config, a, v) THEN FailDefer
                ELSE ValidateArgs(config, i + 1, ValidateAdvance(a, v))
           [] a.type = "Option" ->
                IF ~validate_option(a) THEN FailReturn
                ELSE ValidateArgs(config, i + 1, ValidateAdvance(a, v))
           [] a.type = "Flag" ->
                IF ~validate_flag(a) THEN FailReturn
                ELSE ValidateArgs(config, i + 1, ValidateAdvance(a, v))

\* clags__validate_config
validate_config(config) ==
    IF config.options.list_terminator /= NULL
       /\ StrEq(config.options.list_terminator, DoubleDash)
    THEN FailDefer
    ELSE IF config.options.ignore_prefix /= NULL
            /\ StrEq(config.options.ignore_prefix, DoubleDash)
    THEN FailDefer
    ELSE ValidateArgs(config, 1, ValidateStart)

-----------------------------------------------------------------------------
(* clags__sort_args: the declarations of each kind, by their index in args *)

RECURSIVE IndicesOf(_, _, _)
IndicesOf(args, kind, i) ==
    IF i > Len(args) THEN <<>>
    ELSE IF args[i].type = kind THEN <<i>> \o IndicesOf(args, kind, i + 1)
    ELSE IndicesOf(args, kind, i + 1)

\* args.positional, args.option, args.flags as indices into config->args
positional(config) == IndicesOf(config.args, "Positional", 1)
option(config) == IndicesOf(config.args, "Option", 1)
flags(config) == IndicesOf(config.args, "Flag", 1)

\* args.required_count
RequiredCount(config) ==
    Cardinality({k \in 1..Len(positional(config)) :
                    ~config.args[positional(config)[k]].optional})

-----------------------------------------------------------------------------
(* clags_parse.  The scanner is written over a record S of everything one    *)
(* call can change: cfg, mem, ignored, missing, the locals f of the call,   *)
(* and how the loop body ended: out = "next" (continue with the next        *)
(* token), "return" (clags_return_defer(ret)) or "call" (the recursive      *)
(* clags_parse on callee).                                                   *)

\* the locals of a clags_parse call at the head of its loop
Frame(c, tokens) ==
    [config |-> c, argv |-> tokens, index |-> 1, arguments_ignored |-> FALSE,
     in_list |-> FALSE, parsing_optionals |-> FALSE, accept_options |-> TRUE,
     positional_count |-> 0, required_count |-> 0]

\* argc, argv[i] of a call
Argc(f) == Len(f.argv)
Argv(f, i) == f.argv[i + 1]

NoCallee == [config |-> NoConfig, argv |-> <<>>]

\* clags_config_duplicate_string: the allocs list after the string is handed out
DuplicateString(config, allocs, string) ==
    IF config.options.duplicate_strings
    THEN LET grown == IF allocs.count >= allocs.capacity
                      THEN [allocs EXCEPT !.capacity =
                              IF allocs.capacity = 0 THEN CLAGS_LIST_INIT_CAPACITY
                              ELSE allocs.capacity * 2]
                      ELSE allocs
         IN [grown EXCEPT !.items = Append(grown.items, string),
                          !.count = grown.count + 1]
    ELSE allocs

\* the string verifiers hand out the token through clags_config_duplicate_string
DuplicatesToken(value_type) == value_type \in {"String", "Path", "File", "Dir"}

\* an error that is noted while the loop goes on: what C17 rules out
Fail_Noted(S, error) == [S EXCEPT !.cfg[S.f.config].error = error]

\* clags_return_defer(config) after config->error = error
Fail(S, error) ==
    [S EXCEPT !.cfg[S.f.config].error = error, !.out = "return", !.ret = S.f.config]

\* clags_return_defer(value)
ReturnWith(S, value) == [S EXCEPT !.out = "return", !.ret = value]

\* the scanner after clags__set_arg returned r for declaration i
SetArgWith(K, S, i, arg, r) ==
    LET c == S.f.config
        a == K.args[i]
        stored == r.result /\ (a.is_list \/ a.variable) /\ DuplicatesToken(a.value_type)
        T == [S EXCEPT !.mem[c][i] = r.variable,
                       !.cfg[c].allocs = IF stored
                                         THEN DuplicateString(K, S.cfg[c].allocs, arg)
                                         ELSE S.cfg[c].allocs]
    IN IF r.result THEN T ELSE Fail(T, r.error)

\* a call of clags__set_arg for declaration i of the running config
SetArg(K, S, i, arg) ==
    SetArgWith(K, S, i, arg,
               set_arg(K.args[i].value_type, arg, K.args[i].variable,
                       S.mem[S.f.config][i], K.args[i].data, K.args[i].is_list))

\* a set_flag that never leaves the loop: what C10 rules out
SetFlag_NoExit(K, S, i) ==
    [S EXCEPT !.mem[S.f.config][i] = set_flag(S.f.config, K.args[i], S.mem[S.f.config][i]),
              !.matched = TRUE,
              !.exit = K.args[i].exit]

\* a call of clags__set_flag for declaration i, and the exit it may ask for
SetFlag(K, S, i) ==
    LET c == S.f.config
        flag == K.args[i]
        T == [S EXCEPT !.mem[c][i] = set_flag(c, flag, S.mem[c][i]), !.matched = TRUE]
    IN IF flag.exit THEN [ReturnWith(T, NoConfig) EXCEPT !.exit = TRUE] ELSE T

\* strncmp(arg, ignore_prefix, ignore_prefix_len) == 0 with a prefix configured
IsIgnored(K, arg) ==
    K.options.ignore_prefix /= NULL /\ HasPrefix(arg, K.options.ignore_prefix)

\* a fetch that takes the next argument whatever it is: what C28 rules out
FetchValue_Next(K, f) ==
    IF Argc(f) - f.index <= 1 THEN [ok |-> FALSE, f |-> f, value |-> NULL]
    ELSE [ok |-> TRUE, f |-> [f EXCEPT !.index = f.index + 1], value |-> Argv(f, f.index + 1)]

RECURSIVE FetchValue(_, _)
\* the value of an option from the next argument that is not ignored:
\* ok is false when the arguments run out
FetchValue(K, f) ==
    IF Argc(f) - f.index <= 1 THEN [ok |-> FALSE, f |-> f, value |-> NULL]
    ELSE LET g == [f EXCEPT !.index = f.index + 1]
             value == Argv(g, g.index)
         IN IF ~IsIgnored(K, value) THEN [ok |-> TRUE, f |-> g, value |-> value]
            ELSE FetchValue(K, [g EXCEPT !.arguments_ignored = TRUE])

\* an option that needs its value from the following arguments
OptionFromNext(K, S, i) ==
    LET fv == FetchValue(K, S.f) IN
    IF ~fv.ok THEN Fail([S EXCEPT !.f = fv.f], "Clags_Error_InvalidOption")
    ELSE SetArg(K, [S EXCEPT !.f = fv.f], i, fv.value)

RECURSIVE LongFlags(_, _, _, _)
\* the loop over the long flags: the first flag named arg
LongFlags(K, S, arg, k) ==
    IF k > Len(flags(K)) THEN Fail(S, "Clags_Error_InvalidOption")
    ELSE LET flag == K.args[flags(K)[k]] IN
         IF flag.long_flag /= NULL /\ StrEq(arg, flag.long_flag)
         THEN SetFlag(K, S, flags(K)[k])
         ELSE LongFlags(K, S, arg, k + 1)

RECURSIVE LongOptions(_, _, _, _)
\* a loop that binds the attached value with its "=": what C13 rules out
LongOptions_EqualsKept(K, S, arg, k) ==
    IF k > Len(option(K)) THEN LongFlags(K, S, arg, 1)
    ELSE LET opt == K.args[option(K)[k]] IN
         IF opt.long_flag = NULL \/ ~HasPrefix(arg, opt.long_flag)
         THEN LongOptions(K, S, arg, k + 1)
         ELSE LET value == Skip(arg, Len(opt.long_flag)) IN
              IF value = <<>> THEN OptionFromNext(K, S, option(K)[k])
              ELSE SetArg(K, S, option(K)[k], value)

\* a loop that gives up at the first option whose name starts the token: what
\* C27 rules out
LongOptions_FirstPrefix(K, S, arg, k) ==
    IF k > Len(option(K)) THEN LongFlags(K, S, arg, 1)
    ELSE LET opt == K.args[option(K)[k]] IN
         IF opt.long_flag = NULL \/ ~HasPrefix(arg, opt.long_flag)
         THEN LongOptions(K, S, arg, k + 1)
         ELSE LET value == Skip(arg, Len(opt.long_flag)) IN
              IF value = <<>> THEN OptionFromNext(K, S, option(K)[k])
              ELSE IF value[1] = "="
              THEN IF Len(value) = 1 THEN Fail(S, "Clags_Error_InvalidOption")
                   ELSE SetArg(K, S, option(K)[k], Skip(value, 1))
              ELSE Fail(S, "Clags_Error_InvalidOption")

\* the loop over the long options, then the long flags
LongOptions(K, S, arg, k) ==
    IF k > Len(option(K)) THEN LongFlags(K, S, arg, 1)
    ELSE LET opt == K.args[option(K)[k]] IN
         IF opt.long_flag = NULL \/ ~HasPrefix(arg, opt.long_flag)
         THEN LongOptions(K, S, arg, k + 1)
         ELSE LET value == Skip(arg, Len(opt.long_flag)) IN
              IF value = <<>> THEN OptionFromNext(K, S, option(K)[k])
              ELSE IF value[1] = "="
              THEN IF Len(value) = 1 THEN Fail(S, "Clags_Error_InvalidOption")
                   ELSE SetArg(K, S, option(K)[k], Skip(value, 1))
              ELSE LongOptions(K, S, arg, k + 1)

\* a token with the long marker, options accepted
ParseLong(K, S, token) ==
    LET arg == Skip(token, 2) IN
    IF arg = <<>> THEN Fail(S, "Clags_Error_InvalidOption")
    ELSE LongOptions(K, S, arg, 1)

RECURSIVE ShortFlags(_, _, _, _)
\* the loop over the flags for one character: every flag with that letter is set,
\* up to the first that exits
ShortFlags(K, S, ch, k) ==
    IF k > Len(flags(K)) THEN S
    ELSE IF ch = K.args[flags(K)[k]].short_flag
    THEN LET T == SetFlag(K, S, flags(K)[k]) IN
         IF T.out = "return" THEN T ELSE ShortFlags(K, T, ch, k + 1)
    ELSE ShortFlags(K, S, ch, k + 1)

\* a scanner without short options: what C12 rules out
ShortOption_None(K, ch) == 0

\* the first option with the short letter ch (an index into option(K)), 0 if none
ShortOption(K, ch) ==
    IF \E k \in 1..Len(option(K)) : K.args[option(K)[k]].short_flag = ch
    THEN CHOOSE k \in 1..Len(option(K)) :
            /\ K.args[option(K)[k]].short_flag = ch
            /\ \A j \in 1..(k - 1) : K.args[option(K)[j]].short_flag /= ch
    ELSE 0

\* a walk that stops after the first character of the group: what C11 rules out
ShortGroup_FirstOnly(K, S, arg, p) ==
    LET ch == arg[1]
        k == ShortOption(K, ch)
    IN IF k > 0
       THEN LET value == Skip(arg, 1) IN
            IF value = <<>> THEN OptionFromNext(K, S, option(K)[k])
            ELSE SetArg(K, S, option(K)[k], value)
       ELSE LET T == ShortFlags(K, [S EXCEPT !.matched = FALSE], ch, 1) IN
            IF T.out = "return" THEN T
            ELSE IF ~T.matched THEN Fail(T, "Clags_Error_InvalidOption")
            ELSE T

RECURSIVE ShortGroup(_, _, _, _)
\* the walk over the characters of a short group from character p (0-based)
ShortGroup(K, S, arg, p) ==
    IF p >= Len(arg) THEN S
    ELSE LET ch == arg[p + 1]
             k == ShortOption(K, ch)
         IN IF k > 0
            THEN LET value == Skip(arg, p + 1) IN
                 IF value = <<>> THEN OptionFromNext(K, S, option(K)[k])
                 ELSE SetArg(K, S, option(K)[k], value)
            ELSE LET T == ShortFlags(K, [S EXCEPT !.matched = FALSE], ch, 1) IN
                 IF T.out = "return" THEN T
                 ELSE IF ~T.matched THEN Fail(T, "Clags_Error_InvalidOption")
                 ELSE ShortGroup(K, T, arg, p + 1)

\* a token with the short marker, options accepted
ParseShort(K, S, token) ==
    LET arg == Skip(token, 1) IN
    IF Len(arg) = 0 THEN Fail(S, "Clags_Error_InvalidOption")
    ELSE ShortGroup(K, S, arg, 0)

\* a subcommand positional: verify, link the child, bind, and hand the rest to the child
ParseSubcmd(K, S, i, arg) ==
    LET c == S.f.config
        pos == K.args[i]
        verdict == Verify(pos.value_type, arg, pos.variable, pos.data)
        child == IF verdict.ok THEN pos.data.items[verdict.value].config ELSE NoConfig
        linked == IF child /= NoConfig THEN [S EXCEPT !.cfg[child].parent = c] ELSE S
    IN IF ~verdict.ok THEN ReturnWith(S, c)
       ELSE IF ~pos.variable THEN ReturnWith(linked, NoConfig)
       ELSE [linked EXCEPT !.mem[c][i] = verdict.value,
                           !.out = "call",
                           !.callee = [config |-> child, argv |-> Skip(S.f.argv, S.f.index)]]

\* counters that take every positional for a required one: what C30 rules out
AdvancePositional_AllRequired(f, pos) ==
    [f EXCEPT !.positional_count = f.positional_count + 1,
              !.required_count = f.required_count + 1]

\* the counters after a positional that is not a list took its token
AdvancePositional(f, pos) ==
    [f EXCEPT !.positional_count = f.positional_count + 1,
              !.required_count = IF ~pos.optional THEN f.required_count + 1
                                 ELSE f.required_count]

\* a list end that does not move on to the next positional: what C7 rules out
CloseList_SlotKept(f) ==
    [f EXCEPT !.required_count = IF ~f.parsing_optionals THEN f.required_count + 1
                                 ELSE f.required_count]

\* the counters when a list ends, at its terminator or at the end of the arguments
CloseList(f) ==
    [f EXCEPT !.positional_count = f.positional_count + 1,
              !.required_count = IF ~f.parsing_optionals THEN f.required_count + 1
                                 ELSE f.required_count]

\* a scanner that moves on to the next positional at every element of a list:
\* what C31 rules out
ParsePositional_PerElement(K, S, arg) ==
    IF S.f.positional_count >= Len(positional(K))
    THEN Fail(S, "Clags_Error_TooManyArguments")
    ELSE LET i == positional(K)[S.f.positional_count + 1]
             pos == K.args[i]
         IN IF pos.value_type = "Subcmd" THEN ParseSubcmd(K, S, i, arg)
            ELSE LET g == AdvancePositional(S.f, pos)
                     h == [g EXCEPT !.parsing_optionals = pos.optional]
                 IN SetArg(K, [S EXCEPT !.f = h], i, arg)

\* a token taken as a positional argument
ParsePositional(K, S, arg) ==
    IF S.f.positional_count >= Len(positional(K))
    THEN Fail(S, "Clags_Error_TooManyArguments")
    ELSE LET i == positional(K)[S.f.positional_count + 1]
             pos == K.args[i]
         IN IF pos.value_type = "Subcmd" THEN ParseSubcmd(K, S, i, arg)
            ELSE LET g == IF pos.is_list THEN [S.f EXCEPT !.in_list = TRUE]
                          ELSE AdvancePositional(S.f, pos)
                     h == [g EXCEPT !.parsing_optionals = pos.optional]
                 IN SetArg(K, [S EXCEPT !.f = h], i, arg)

\* a scanner without the toggle, and one that never toggles back: what C14 and C15
\* rule out
Toggles_Never(K, f, arg) == FALSE
Toggles_WhileAccepting(K, f, arg) == StrEq(arg, DoubleDash) /\ f.accept_options

\* the toggle test: "--" flips option parsing while it is on, or when toggling is allowed
Toggles(K, f, arg) ==
    StrEq(arg, DoubleDash) /\ (f.accept_options \/ K.options.allow_option_parsing_toggle)

\* an ignored argument: noted, and appended to ignored_args without the prefix
ParseIgnored(K, S, arg) ==
    LET c == S.f.config
        rest == Skip(arg, Len(K.options.ignore_prefix))
        T == [S EXCEPT !.f.arguments_ignored = TRUE]
    IN IF K.options.ignored_args
       THEN [T EXCEPT !.ignored[c] = AppendToList(S.ignored[c], verify_string(rest)),
                      !.cfg[c].allocs = DuplicateString(K, S.cfg[c].allocs, rest)]
       ELSE T

\* a dispatch that takes "-" and a digit for a short group: what C29 rules out
Dispatch_DigitGroups(K, f, arg) ==
    IF Toggles(K, f, arg) THEN "toggle"
    ELSE IF IsIgnored(K, arg) THEN "ignore"
    ELSE IF K.options.list_terminator /= NULL /\ StrEq(arg, K.options.list_terminator)
    THEN "terminator"
    ELSE IF f.accept_options /\ HasPrefix(arg, DoubleDash) THEN "long"
    ELSE IF f.accept_options /\ CharAt(arg, 0) = "-" THEN "short"
    ELSE "positional"

\* the rule of the loop body that takes the token
Dispatch(K, f, arg) ==
    IF Toggles(K, f, arg) THEN "toggle"
    ELSE IF IsIgnored(K, arg) THEN "ignore"
    ELSE IF K.options.list_terminator /= NULL /\ StrEq(arg, K.options.list_terminator)
    THEN "terminator"
    ELSE IF f.accept_options /\ HasPrefix(arg, DoubleDash) THEN "long"
    ELSE IF f.accept_options /\ CharAt(arg, 0) = "-" /\ ~isdigit(CharAt(arg, 1)) THEN "short"
    ELSE "positional"

\* one pass of the loop body of clags_parse, for argv[index]
LoopBody(K, S) ==
    LET arg == Argv(S.f, S.f.index)
        rule == Dispatch(K, S.f, arg)
    IN CASE rule = "toggle" -> [S EXCEPT !.f.accept_options = ~S.f.accept_options]
         [] rule = "ignore" -> ParseIgnored(K, S, arg)
         [] rule = "terminator" ->
                IF S.f.in_list THEN [S EXCEPT !.f = [CloseList(S.f) EXCEPT !.in_list = FALSE]]
                ELSE S
         [] rule = "long" -> ParseLong(K, S, arg)
         [] rule = "short" -> ParseShort(K, S, arg)
         [] rule = "positional" -> ParsePositional(K, S, arg)

RECURSIVE ScanTokens(_, _, _)
\* at most n passes of the token loop from S, up to the first that leaves the loop;
\* S.f.index is then the next argument to look at
ScanTokens(K, S, n) ==
    IF n = 0 \/ S.out /= "next" \/ S.f.index >= Argc(S.f) THEN S
    ELSE LET T == LoopBody(K, S) IN
         IF T.out = "next"
         THEN ScanTokens(K, [T EXCEPT !.f.index = T.f.index + 1], n - 1)
         ELSE T

\* a message that lists the required positionals from the first one: what C8
\* rules out
MissingNames_FromFirst(K, f) ==
    [k \in 1..(IF RequiredCount(K) > f.positional_count
               THEN RequiredCount(K) - f.positional_count ELSE 0) |->
        K.args[positional(K)[k]].arg_name]

\* the names of the positionals the "Missing required arguments" message lists
MissingNames(K, f) ==
    [k \in 1..(IF RequiredCount(K) > f.positional_count
               THEN RequiredCount(K) - f.positional_count ELSE 0) |->
        K.args[positional(K)[f.positional_count + k]].arg_name]

\* the code after the loop: an open list counts, then the required count is checked
AfterLoop(K, S) ==
    LET g == IF S.f.in_list THEN CloseList(S.f) ELSE S.f
        T == [S EXCEPT !.f = g]
    IN IF g.required_count < RequiredCount(K)
       THEN [Fail(T, "Clags_Error_TooFewArguments") EXCEPT !.missing = MissingNames(K, g)]
       ELSE ReturnWith(T, NoConfig)

\* a parse that starts from fresh targets: what C25 rules out
EnterParse_Fresh(W, S, c, tokens) ==
    IF c = NoConfig THEN ReturnWith(S, NoConfig)
    ELSE IF W.configs[c].args = <<>> \/ S.cfg[c].invalid THEN ReturnWith(S, NoConfig)
    ELSE LET K == W.configs[c]
             v == validate_config(K)
         IN IF ~v.result
            THEN [S EXCEPT !.cfg[c].invalid = TRUE,
                           !.cfg[c].error = IF v.error = "keep" THEN S.cfg[c].error
                                            ELSE v.error,
                           !.out = "return", !.ret = c]
            ELSE [S EXCEPT !.mem[c] = [i \in 1..Len(K.args) |-> InitialValue(K.args[i])],
                           !.cfg[c].name = tokens[1],
                           !.cfg[c].allocs = DuplicateString(K, S.cfg[c].allocs, tokens[1]),
                           !.cfg[c].error = "Clags_Error_Ok",
                           !.out = "enter",
                           !.f = Frame(c, tokens)]

\* a call that starts with the option parsing of the call it was made from: what
\* C35 rules out
EnterParse_Inherit(W, S, c, tokens) ==
    IF c = NoConfig THEN ReturnWith(S, NoConfig)
    ELSE IF W.configs[c].args = <<>> \/ S.cfg[c].invalid THEN ReturnWith(S, NoConfig)
    ELSE LET K == W.configs[c]
             v == validate_config(K)
         IN IF ~v.result
            THEN [S EXCEPT !.cfg[c].invalid = TRUE,
                           !.cfg[c].error = IF v.error = "keep" THEN S.cfg[c].error
                                            ELSE v.error,
                           !.out = "return", !.ret = c]
            ELSE [S EXCEPT !.cfg[c].name = tokens[1],
                           !.cfg[c].allocs = DuplicateString(K, S.cfg[c].allocs, tokens[1]),
                           !.cfg[c].error = "Clags_Error_Ok",
                           !.out = "enter",
                           !.f = [Frame(c, tokens) EXCEPT !.accept_options = S.f.accept_options]]

\* the head of clags_parse, for a call on config c with arguments tokens: the
\* early returns, the validation, and the locals of the loop (out = "enter")
EnterParse(W, S, c, tokens) ==
    IF c = NoConfig THEN ReturnWith(S, NoConfig)
    ELSE IF W.configs[c].args = <<>> \/ S.cfg[c].invalid THEN ReturnWith(S, NoConfig)
    ELSE LET K == W.configs[c]
             v == validate_config(K)
         IN IF ~v.result
            THEN [S EXCEPT !.cfg[c].invalid = TRUE,
                           !.cfg[c].error = IF v.error = "keep" THEN S.cfg[c].error
                                            ELSE v.error,
                           !.out = "return", !.ret = c]
            ELSE [S EXCEPT !.cfg[c].name = tokens[1],
                           !.cfg[c].allocs = DuplicateString(K, S.cfg[c].allocs, tokens[1]),
                           !.cfg[c].error = "Clags_Error_Ok",
                           !.out = "enter",
                           !.f = Frame(c, tokens)]

-----------------------------------------------------------------------------
(* The state machine *)

\* the fields of a config before its first parse: clags_config zeroes them
InitialConfigState ==
    [name |-> NULL, parent |-> NoConfig, invalid |-> FALSE, error |-> "Clags_Error_Ok",
     allocs |-> EmptyList]

NoLast == [config |-> NoConfig, rule |-> "none", index |-> 0, exit |-> FALSE]
NoCall == [config |-> NoConfig, argv |-> <<>>]
NoFrame == Frame(NoConfig, <<>>)

\* tod.c is not running
NoProcess == [pc |-> "none"]

\* the state of the program for the declarations W, before any call
InitWorld(W) ==
    /\ world = W
    /\ cfg = [c \in DOMAIN W.configs |-> InitialConfigState]
    /\ mem = [c \in DOMAIN W.configs |->
                [i \in 1..Len(W.configs[c].args) |-> InitialValue(W.configs[c].args[i])]]
    /\ ignored = [c \in DOMAIN W.configs |-> EmptyList]
    /\ stack = <<>>
    /\ pc = "idle"
    /\ result = NoConfig
    /\ missing = <<>>
    /\ last = NoLast
    /\ call = NoCall
    /\ calls = W.calls
    /\ tod = NoProcess
    /\ stdout = <<>>

\* the record the scanner works on, for the call with locals f
Machine(f) ==
    [cfg |-> cfg, mem |-> mem, ignored |-> ignored, missing |-> missing, f |-> f,
     out |-> "next", ret |-> NoConfig, callee |-> NoCallee, matched |-> FALSE,
     exit |-> FALSE]

\* the value a call hands to its caller when the call it delegated to returned value
ReturnValue(f, value) == value

\* the state after a step that left S, with rest the calls below the running one
Commit(S, rest) ==
    /\ cfg' = S.cfg
    /\ mem' = S.mem
    /\ ignored' = S.ignored
    /\ missing' = S.missing
    /\ CASE S.out = "enter" ->
              /\ stack' = Append(rest, S.f)
              /\ pc' = "scan"
              /\ result' = NoConfig
         [] S.out = "next" ->
              /\ stack' = Append(rest, [S.f EXCEPT !.index = S.f.index + 1])
              /\ pc' = "scan"
              /\ result' = NoConfig
         [] S.out = "return" ->
              /\ stack' = rest
              /\ pc' = "return"
              /\ result' = S.ret

\* tokens of at most n arguments after the program name
RECURSIVE SeqsUpTo(_, _)
SeqsUpTo(A, n) ==
    IF n = 0 THEN {<<>>}
    ELSE LET shorter == SeqsUpTo(A, n - 1) IN
         shorter \cup {Append(t, x) : t \in {u \in shorter : Len(u) = n - 1}, x \in A}

ProgramName == <<"p","r","o","g">>

\* the caller calls clags_parse(argc, argv, &config) on one of its configs, with
\* the program name and some arguments
ParseCall ==
    /\ pc = "idle"
    /\ calls > 0
    /\ calls' = calls - 1
    /\ last' = NoLast
    /\ \E c \in world.roots, tokens \in SeqsUpTo(world.alphabet, world.maxTokens) :
            LET argv == <<ProgramName>> \o tokens IN
            /\ call' = [config |-> c, argv |-> argv]
            /\ Commit(EnterParse(world, [Machine(NoFrame) EXCEPT !.missing = <<>>],
                                 c, argv),
                      <<>>)
    /\ UNCHANGED world
    /\ UNCHANGED todvars

\* one pass of the token loop of the innermost call; a matched subcommand enters
\* the child's clags_parse
ScanToken ==
    /\ pc = "scan"
    /\ LET f == stack[Len(stack)]
           K == world.configs[f.config]
       IN /\ f.index < Argc(f)
          /\ LET S == LoopBody(K, Machine(f))
                 rest == SubSeq(stack, 1, Len(stack) - 1)
             IN /\ last' = [config |-> f.config,
                            rule |-> Dispatch(K, f, Argv(f, f.index)),
                            index |-> f.index, exit |-> S.exit]
                /\ IF S.out = "call"
                   THEN Commit(EnterParse(world, S, S.callee.config, S.callee.argv),
                               Append(rest, S.f))
                   ELSE Commit(S, rest)
    /\ UNCHANGED <<world, call, calls>>
    /\ UNCHANGED todvars

\* the innermost call ran out of arguments
EndOfInput ==
    /\ pc = "scan"
    /\ LET f == stack[Len(stack)]
           K == world.configs[f.config]
       IN /\ f.index >= Argc(f)
          /\ LET S == AfterLoop(K, Machine(f)) IN
             /\ last' = [config |-> f.config, rule |-> "end", index |-> f.index,
                         exit |-> FALSE]
             /\ Commit(S, SubSeq(stack, 1, Len(stack) - 1))
    /\ UNCHANGED <<world, call, calls>>
    /\ UNCHANGED todvars

\* clags_return_defer(clags_parse(...)): a call that delegated to a child hands the
\* child's result to its own caller; the outermost call hands it to the program
Return ==
    /\ pc = "return"
    /\ IF stack = <<>>
       THEN /\ pc' = "idle"
            /\ UNCHANGED <<stack, result>>
       ELSE /\ stack' = SubSeq(stack, 1, Len(stack) - 1)
            /\ result' = ReturnValue(stack[Len(stack)], result)
            /\ pc' = "return"
    /\ UNCHANGED <<world, cfg, mem, ignored, missing, last, call, calls>>
    /\ UNCHANGED todvars

Next ==
    \/ ParseCall
    \/ ScanToken
    \/ EndOfInput
    \/ Return

-----------------------------------------------------------------------------
(* The declarations the validator is checked on.                             *)

ListTerminator == <<":", ":">>

\* the child config of the subcommand "s": one required positional
SubConfig == Config(<<Positional(TRUE, "x", "String", FALSE, FALSE, NoData)>>, NoOptions)
SubSet == Subcmds(<<[name |-> <<"s">>, config |-> "sub"]>>)

\* declarations that are complete in themselves
SoundDecls ==
    { Positional(TRUE, "a", "String", FALSE, FALSE, NoData),
      Positional(TRUE, "b", "String", FALSE, TRUE, NoData),
      Positional(TRUE, "l", "String", TRUE, FALSE, NoData),
      Positional(TRUE, "m", "String", TRUE, TRUE, NoData),
      Positional(TRUE, NullName, "String", FALSE, FALSE, NoData),
      Positional(TRUE, "cmd", "Subcmd", FALSE, FALSE, SubSet),
      Option("o", <<"o","u","t">>, TRUE, "String", FALSE, NoData),
      Flag("f", NULL, TRUE, "BoolFlag", FALSE) }

\* declarations whose value type lacks its payload, and the subcommand option
PositionalsWithoutPayload ==
    { Positional(TRUE, "nocmd", "Subcmd", FALSE, FALSE, NoData),
      Positional(TRUE, "choice", "Choice", FALSE, FALSE, NoData),
      Positional(TRUE, "custom", "Custom", FALSE, FALSE, NoData) }
OptionsWithoutPayload ==
    { Option("s", NULL, TRUE, "Subcmd", FALSE, SubSet),
      Option("c", NULL, TRUE, "Choice", FALSE, NoData),
      Option("u", NULL, TRUE, "Custom", FALSE, NoData) }

\* a caller that parses the config root twice, with at most one argument
DeclWorld(decls, opts) ==
    [configs |-> [c \in {"root", "sub"} |->
                    IF c = "root" THEN Config(decls, opts) ELSE SubConfig],
     roots |-> {"root"},
     alphabet |-> {<<"x">>, <<"s">>},
     maxTokens |-> 1,
     calls |-> 2]

\* the order and placement rules: every sequence of at most MaxDecls declarations
\* that are sound in themselves, or the subcommand option, with and without a
\* list terminator; and the two reserved-token collisions
MaxDecls == 3

OrderWorlds ==
    { DeclWorld(decls, opts) :
        decls \in SeqsUpTo(SoundDecls \cup {Option("s", NULL, TRUE, "Subcmd", FALSE, SubSet)},
                           MaxDecls),
        opts \in {NoOptions, Options(NULL, FALSE, ListTerminator, FALSE, FALSE)} }
    \cup
    { DeclWorld(<<Positional(TRUE, "a", "String", FALSE, FALSE, NoData)>>, opts) :
        opts \in {Options(NULL, FALSE, DoubleDash, FALSE, FALSE),
                  Options(DoubleDash, FALSE, NULL, FALSE, FALSE)} }

InitValidate == \E W \in OrderWorlds : InitWorld(W)

SpecValidate == InitValidate /\ [][Next]_vars

\* the payload rules: every sequence of at most MaxPayloadDecls declarations of
\* any kind
MaxPayloadDecls == 2

PayloadWorlds ==
    { DeclWorld(decls, opts) :
        decls \in SeqsUpTo(SoundDecls \cup PositionalsWithoutPayload
                                      \cup OptionsWithoutPayload, MaxPayloadDecls),
        opts \in {NoOptions, Options(NULL, FALSE, ListTerminator, FALSE, FALSE)} }

InitPayload == \E W \in PayloadWorlds : InitWorld(W)

SpecPayload == InitPayload /\ [][Next]_vars

-----------------------------------------------------------------------------
(* The programs the scanner is checked on: a caller that parses its config    *)
(* once, with at most MaxTokens arguments drawn from the world's alphabet.    *)

MaxTokens == 4

Verbose == Flag("v", <<"v","e","r","b","o","s","e">>, TRUE, "CountFlag", FALSE)

\* a caller with one config
ScanWorld(decls, opts, tokens) ==
    [configs |-> [c \in {"root"} |-> Config(decls, opts)],
     roots |-> {"root"},
     alphabet |-> tokens,
     maxTokens |-> MaxTokens,
     calls |-> 1]

\* lists: two list positionals, a list and a single positional, both with the
\* terminator "::"; and one trailing list without a terminator
ListTokens == {<<"x">>, <<"y">>, ListTerminator, <<"-","v">>}

ListWorlds ==
    { ScanWorld(<<Positional(TRUE, "first", "String", TRUE, FALSE, NoData),
                  Verbose,
                  Positional(TRUE, "second", "String", TRUE, FALSE, NoData)>>,
                Options(NULL, FALSE, ListTerminator, FALSE, FALSE), ListTokens),
      ScanWorld(<<Positional(TRUE, "first", "String", TRUE, FALSE, NoData),
                  Verbose,
                  Positional(TRUE, "single", "String", FALSE, FALSE, NoData)>>,
                Options(NULL, FALSE, ListTerminator, FALSE, FALSE), ListTokens),
      ScanWorld(<<Verbose,
                  Positional(TRUE, "rest", "String", TRUE, FALSE, NoData)>>,
                NoOptions, ListTokens) }

InitLists == \E W \in ListWorlds : InitWorld(W)

SpecLists == InitLists /\ [][Next]_vars

\* positionals: required and optional ones around a flag; a required list at the
\* end; flags and options only; and the config without declarations
PositionalTokens == {<<"x">>, <<"y">>, <<"-","v">>, DoubleDash}

PositionalWorlds ==
    { ScanWorld(<<Positional(TRUE, "first", "String", FALSE, FALSE, NoData),
                  Verbose,
                  Positional(TRUE, "second", "String", FALSE, FALSE, NoData),
                  Positional(TRUE, "third", "String", FALSE, TRUE, NoData)>>,
                NoOptions, PositionalTokens),
      ScanWorld(<<Positional(TRUE, "first", "String", FALSE, FALSE, NoData),
                  Positional(TRUE, "rest", "String", TRUE, FALSE, NoData),
                  Verbose>>,
                NoOptions, PositionalTokens),
      ScanWorld(<<Verbose,
                  Option("o", <<"o","u","t">>, TRUE, "String", FALSE, NoData)>>,
                NoOptions, PositionalTokens),
      ScanWorld(<<>>, NoOptions, PositionalTokens) }

InitPositionals == \E W \in PositionalWorlds : InitWorld(W)

SpecPositionals == InitPositionals /\ [][Next]_vars

\* subcommands and exit flags: the root hands over to "build", which has three
\* flags on the letter h, the second of them the exit flag; "test" is a config
\* that fails validation; "none" is an entry without a config
BuildConfig ==
    Config(<<Verbose,
             Flag("h", NULL, TRUE, "CountFlag", FALSE),
             Flag("h", <<"h","e","l","p">>, TRUE, "ConfigFlag", TRUE),
             Flag("h", NULL, TRUE, "BoolFlag", FALSE),
             Positional(TRUE, "target", "String", FALSE, FALSE, NoData),
             Positional(TRUE, "extra", "String", FALSE, TRUE, NoData)>>,
           NoOptions)

TestConfig ==
    Config(<<Positional(TRUE, "b", "String", FALSE, TRUE, NoData),
             Positional(TRUE, "a", "String", FALSE, FALSE, NoData)>>,
           NoOptions)

Commands ==
    Subcmds(<<[name |-> <<"b","u","i","l","d">>, config |-> "build"],
              [name |-> <<"t","e","s","t">>, config |-> "test"],
              [name |-> <<"n","o","n","e">>, config |-> NoConfig]>>)

SubcmdTokens ==
    {<<"b","u","i","l","d">>, <<"t","e","s","t">>, <<"n","o","n","e">>, <<"x">>,
     <<"-","h">>, <<"-","v","h">>, <<"-","h","v">>, <<"-","-","h","e","l","p">>}

\* the root binds the matched entry to a variable, or declares none for it
SubcmdWorld(hasVar) ==
    [configs |-> [c \in {"root", "build", "test"} |->
                    CASE c = "root" ->
                            Config(<<Verbose,
                                     Flag("h", <<"h","e","l","p">>, TRUE, "BoolFlag", TRUE),
                                     Positional(hasVar, "command", "Subcmd", FALSE, FALSE,
                                                Commands)>>,
                                   NoOptions)
                      [] c = "build" -> BuildConfig
                      [] c = "test" -> TestConfig],
     roots |-> {"root"},
     alphabet |-> SubcmdTokens,
     maxTokens |-> MaxTokens,
     calls |-> 1]

InitSubcmd == \E hasVar \in BOOLEAN : InitWorld(SubcmdWorld(hasVar))

SpecSubcmd == InitSubcmd /\ [][Next]_vars

\* short groups: flags a, b (a counter and a second flag on the same letter) and
\* the exit flag e, the options o and l (a list), an optional positional, and the
\* ignore prefix "!" with a list for the ignored arguments
IgnorePrefix == <<"!">>

ShortDecls ==
    <<Flag("a", NULL, TRUE, "BoolFlag", FALSE),
      Flag("b", NULL, TRUE, "CountFlag", FALSE),
      Flag("b", NULL, TRUE, "BoolFlag", FALSE),
      Flag("e", NULL, TRUE, "BoolFlag", TRUE),
      Option("o", <<"o","u","t">>, TRUE, "String", FALSE, NoData),
      Option("l", <<"l","i","b">>, TRUE, "String", TRUE, NoData),
      Positional(TRUE, "p", "String", FALSE, TRUE, NoData)>>

ShortTokens ==
    {<<"-","a","b">>, <<"-","b","e","a">>, <<"-","a","o","x">>, <<"-","o","a","b">>,
     <<"-","a","b","o">>, <<"-","l">>, <<"!","s">>, <<"x">>}

ShortWorlds ==
    { ScanWorld(ShortDecls, Options(IgnorePrefix, TRUE, NULL, FALSE, FALSE), ShortTokens) }

InitShort == \E W \in ShortWorlds : InitWorld(W)

SpecShort == InitShort /\ [][Next]_vars

\* long options: a string option, a list option and a bool option, a flag, an
\* optional positional, and the ignore prefix "!"
LongDecls ==
    <<Option("o", <<"o","u","t">>, TRUE, "String", FALSE, NoData),
      Option("l", <<"l","i","b">>, TRUE, "String", TRUE, NoData),
      Option("f", <<"f","o","r","c","e">>, TRUE, "Bool", FALSE, NoData),
      Verbose,
      Positional(TRUE, "p", "String", FALSE, TRUE, NoData)>>

LongTokens ==
    {<<"-","-","o","u","t","=","x">>, <<"-","-","o","u","t">>,
     <<"-","-","l","i","b","=","x">>, <<"-","-","l","i","b">>,
     <<"-","-","f","o","r","c","e","=","x">>, <<"-","-","f","o","r","c","e">>,
     <<"x">>, <<"y">>}

LongWorlds ==
    { ScanWorld(LongDecls, Options(IgnorePrefix, TRUE, NULL, FALSE, FALSE), LongTokens) }

InitLong == \E W \in LongWorlds : InitWorld(W)

SpecLong == InitLong /\ [][Next]_vars

\* the toggle: a flag, an optional positional and an optional list, with the
\* ignore prefix "!" and the terminator "::", with and without toggling back
ToggleDecls ==
    <<Verbose,
      Positional(TRUE, "first", "String", FALSE, TRUE, NoData),
      Positional(TRUE, "rest", "String", TRUE, TRUE, NoData)>>

ToggleTokens ==
    {DoubleDash, <<"-","v">>, <<"-","-","v","e","r","b","o","s","e">>, <<"x">>,
     <<"!","s">>, ListTerminator}

ToggleWorlds ==
    { ScanWorld(ToggleDecls, Options(IgnorePrefix, TRUE, ListTerminator, allowed, FALSE),
                ToggleTokens) : allowed \in BOOLEAN }

InitToggle == \E W \in ToggleWorlds : InitWorld(W)

SpecToggle == InitToggle /\ [][Next]_vars

\* input errors: a flag, a bool option and a required positional, and arguments
\* that are an unknown short flag, an unknown long option, an option without its
\* value, an empty and a rejected attached value, and a positional too many
ErrorDecls ==
    <<Verbose,
      Option("n", <<"n","u","m">>, TRUE, "Bool", FALSE, NoData),
      Positional(TRUE, "p", "String", FALSE, FALSE, NoData)>>

ErrorTokens ==
    {<<"-","v">>, <<"-","z">>, <<"-","-","z","z">>, <<"-","-","n","u","m">>,
     <<"-","-","n","u","m","=">>, <<"-","-","n","u","m","=","x">>,
     <<"t","r","u","e">>, <<"x">>}

ErrorWorlds == {ScanWorld(ErrorDecls, NoOptions, ErrorTokens)}

InitErrors == \E W \in ErrorWorlds : InitWorld(W)

SpecErrors == InitErrors /\ [][Next]_vars

\* integers: an option and a required positional of one 8-bit kind; the
\* arguments are the decimal strings around the range of the kind, alone and as
\* the value of --num=, and some other numerals
IntMargin == 2

IntKinds == {"Int8", "UInt8"}
KindMin(kind) == IF kind = "Int8" THEN INT8_MIN ELSE 0
KindMax(kind) == IF kind = "Int8" THEN INT8_MAX ELSE UINT8_MAX

\* printf("%d", n)
RECURSIVE DecimalDigits(_)
DecimalDigits(n) ==
    IF n < 10 THEN <<HexChars[n + 1]>>
    ELSE Append(DecimalDigits(n \div 10), HexChars[(n % 10) + 1])

ToDecimal(n) == IF n < 0 THEN <<"-">> \o DecimalDigits(0 - n) ELSE DecimalDigits(n)

NumOption == <<"-","-","n","u","m","=">>

Numerals(kind) ==
    {ToDecimal(n) : n \in (KindMin(kind) - IntMargin)..(KindMax(kind) + IntMargin)}

OtherNumerals ==
    {<<>>, <<"0","x","7","f">>, <<"0","1","0">>, <<"+","5">>, <<"1","2","a">>,
     <<"-","0">>, <<" ","7">>, <<"9","9","9","9","9","9","9">>}

IntTokens(kind) ==
    Numerals(kind) \cup OtherNumerals
        \cup {NumOption \o t : t \in Numerals(kind) \cup (OtherNumerals \ {<<>>})}

IntDecls(kind) ==
    <<Option("n", <<"n","u","m">>, TRUE, kind, FALSE, NoData),
      Positional(TRUE, "value", kind, FALSE, FALSE, NoData)>>

IntWorlds ==
    { [configs |-> [c \in {"root"} |-> Config(IntDecls(kind), NoOptions)],
       roots |-> {"root"},
       alphabet |-> IntTokens(kind),
       maxTokens |-> 1,
       calls |-> 1] : kind \in IntKinds }

InitInts == \E W \in IntWorlds : InitWorld(W)

SpecInts == InitInts /\ [][Next]_vars

\* sizes: a required positional of type Clags_Size; the arguments are small
\* magnitudes with every unit, in several spellings and with unknown units, and
\* the numerals at the edges of the 64-bit range
SizeRange == 12

SizeUnits ==
    {<<>>,
     <<"B">>,
     <<"K","i","B">>,
     <<"K","B">>,
     <<"M","i","B">>,
     <<"M","B">>,
     <<"G","i","B">>,
     <<"G","B">>,
     <<"T","i","B">>,
     <<"T","B">>,
     <<"k","i","b">>,
     <<"K","b">>,
     <<"m","B">>,
     <<"b">>,
     <<"X","B">>,
     <<"i","B">>}

EdgeSizes ==
    {<<"1","0","2","4">>,
     <<"1","8","4","4","6","7","4","4","0","7","3","7","0","9","5","5","1","6","1","5">>,
     <<"1","8","4","4","6","7","4","4","0","7","3","7","0","9","5","5","1","6","1","6">>,
     <<"1","8","0","1","4","3","9","8","5","0","9","4","8","1","9","8","3","K","i","B">>,
     <<"1","8","0","1","4","3","9","8","5","0","9","4","8","1","9","8","4","K","i","B">>,
     <<"1","8","4","4","6","7","4","4","T","B">>,
     <<"1","8","4","4","6","7","4","5","T","B">>,
     <<"1","6","7","7","7","2","1","5","T","i","B">>,
     <<"1","6","7","7","7","2","1","6","T","i","B">>,
     <<"1","G","i","B">>,
     <<"1","0","G","i","B">>,
     <<"2","T","i","B">>,
     <<"K","i","B">>,
     <<>>,
     <<"-","5">>,
     <<" ","-","5">>,
     <<"+","5">>,
     <<" ","5">>,
     <<"5"," ","K","B">>,
     <<"9","9","9","9","9","9","9","9","9","9","9","9","9","9","9","9","9","9","9","9","9","9","9">>}

SizeTokens == {ToDecimal(n) \o u : n \in 0..SizeRange, u \in SizeUnits} \cup EdgeSizes

SizeDecls == <<Positional(TRUE, "size", "Size", FALSE, FALSE, NoData)>>

SizeWorlds ==
    { [configs |-> [c \in {"root"} |-> Config(SizeDecls, NoOptions)],
       roots |-> {"root"},
       alphabet |-> SizeTokens,
       maxTokens |-> 1,
       calls |-> 1] }

InitSizes == \E W \in SizeWorlds : InitWorld(W)

SpecSizes == InitSizes /\ [][Next]_vars

\* choices: a positional and an option with a choice set each; the positional's
\* set has two entries that differ only in case, and is compared with and without
\* case folding
Colors(ci) == Choices(<<<<"r","e","d">>, <<"R","e","d">>, <<"g","r","e","e","n">>>>, ci)
Modes == Choices(<<<<"f","a","s","t">>, <<"r","e","d">>>>, FALSE)

ChoiceDecls(ci) ==
    <<Positional(TRUE, "color", "Choice", FALSE, TRUE, Colors(ci)),
      Option("m", <<"m","o","d","e">>, TRUE, "Choice", FALSE, Modes)>>

ChoiceTokens ==
    {<<"r","e","d">>, <<"R","e","d">>, <<"R","E","D">>, <<"g","r","e","e","n">>,
     <<"b","l","u","e">>, <<"-","-","m","o","d","e","=","r","e","d">>,
     <<"-","-","m","o","d","e","=","f","a","s","t">>,
     <<"-","-","m","o","d","e","=","R","e","d">>}

ChoiceWorlds == { ScanWorld(ChoiceDecls(ci), NoOptions, ChoiceTokens) : ci \in BOOLEAN }

InitChoice == \E W \in ChoiceWorlds : InitWorld(W)

SpecChoice == InitChoice /\ [][Next]_vars

\* the list accumulator on its own: the caller's list behind a list of uint8
\* values, appended to as clags__set_arg does for one value after another, some
\* of them rejected by the verifier, and freed by the caller at any time
MaxAppends == 129

AppendTokens == {<<"1">>, <<"x">>, <<"2","5","6">>}

AccumulatorDecls == <<Positional(TRUE, "nums", "UInt8", TRUE, FALSE, NoData)>>

AccumulatorWorld ==
    [configs |-> [c \in {"root"} |-> Config(AccumulatorDecls, NoOptions)],
     roots |-> {"root"},
     alphabet |-> AppendTokens,
     maxTokens |-> 0,
     calls |-> 0]

InitAccumulator == InitWorld(AccumulatorWorld)

\* clags__append_to_list(config, value_type, arg_name, arg, variable, data)
AppendCall ==
    /\ mem["root"][1].count < MaxAppends
    /\ \E arg \in world.alphabet :
          LET a == world.configs["root"].args[1]
              verdict == Verify(a.value_type, arg, TRUE, a.data)
          IN /\ mem' = [mem EXCEPT !["root"][1] = AppendToList(@, verdict)]
             /\ last' = [config |-> "root", rule |-> "append", index |-> 0,
                         exit |-> ~verdict.ok]
    /\ UNCHANGED <<world, cfg, ignored, stack, pc, result, missing, call, calls>>
    /\ UNCHANGED todvars

\* clags_list_free(&list)
FreeCall ==
    /\ mem' = [mem EXCEPT !["root"][1] = clags_list_free(@)]
    /\ last' = [config |-> "root", rule |-> "free", index |-> 0, exit |-> FALSE]
    /\ UNCHANGED <<world, cfg, ignored, stack, pc, result, missing, call, calls>>
    /\ UNCHANGED todvars

NextAccumulator == AppendCall \/ FreeCall

SpecAccumulator == InitAccumulator /\ [][NextAccumulator]_vars

\* a list option on its own, given attached and separate, short and long, with a
\* value that has a comma and one that has none
ListOptionDecls == <<Option("l", <<"l","i","b">>, TRUE, "String", TRUE, NoData)>>

ListOptionTokens ==
    {<<"-","l">>, <<"-","-","l","i","b">>,
     <<"-","l","a",",","b">>, <<"-","l","c">>,
     <<"-","-","l","i","b","=","a",",","b">>, <<"-","-","l","i","b","=","c">>,
     <<"a",",","b">>, <<"c">>}

ListOptionWorlds == { ScanWorld(ListOptionDecls, NoOptions, ListOptionTokens) }

InitListOption == \E W \in ListOptionWorlds : InitWorld(W)

SpecListOption == InitListOption /\ [][Next]_vars

\* several parses of one schema: a counting flag, a list option and an optional
\* list of positionals, parsed up to MaxCalls times
MaxCalls == 2
MaxRepeatTokens == 2

RepeatDecls ==
    <<Flag("v", <<"v","e","r","b","o","s","e">>, TRUE, "CountFlag", FALSE),
      Option("l", <<"l","i","b">>, TRUE, "String", TRUE, NoData),
      Positional(TRUE, "rest", "String", TRUE, TRUE, NoData)>>

RepeatTokens == {<<"-","v">>, <<"-","l","x">>, <<"y">>}

RepeatWorlds ==
    { [configs |-> [c \in {"root"} |-> Config(RepeatDecls, NoOptions)],
       roots |-> {"root"},
       alphabet |-> RepeatTokens,
       maxTokens |-> MaxRepeatTokens,
       calls |-> MaxCalls] }

InitRepeat == \E W \in RepeatWorlds : InitWorld(W)

SpecRepeat == InitRepeat /\ [][Next]_vars

\* long names that start one another: the options "out" and "output", declared
\* in either order, and the flag "outp" between them
PrefixDecls(shortFirst) ==
    LET out == Option(NUL, <<"o","u","t">>, TRUE, "String", FALSE, NoData)
        output == Option(NUL, <<"o","u","t","p","u","t">>, TRUE, "String", FALSE, NoData)
        outp == Flag(NUL, <<"o","u","t","p">>, TRUE, "BoolFlag", FALSE)
    IN IF shortFirst THEN <<out, outp, output>> ELSE <<output, outp, out>>

PrefixTokens ==
    {<<"-","-","o","u","t">>, <<"-","-","o","u","t","p","u","t">>, <<"-","-","o","u","t","p">>,
     <<"-","-","o","u","t","=","x">>, <<"-","-","o","u","t","p","u","t","=","x">>,
     <<"-","-","o","u","t","p","=","x">>, <<"-","-","o","u","t","p","u">>, <<"-","-","o","u">>,
     <<"y">>}

PrefixWorlds == { ScanWorld(PrefixDecls(b), NoOptions, PrefixTokens) : b \in BOOLEAN }

InitPrefix == \E W \in PrefixWorlds : InitWorld(W)

SpecPrefix == InitPrefix /\ [][Next]_vars

\* an option that waits for its value: a string option, the counting flag and an
\* optional list, with the ignore prefix "!", the terminator "::" and the toggle
ValueDecls ==
    <<Option("o", <<"o","u","t">>, TRUE, "String", FALSE, NoData),
      Verbose,
      Positional(TRUE, "rest", "String", TRUE, TRUE, NoData)>>

ValueTokens ==
    {<<"-","-","o","u","t">>, <<"-","o">>, <<"-","v","o">>, DoubleDash, ListTerminator,
     <<"-","v">>, <<"!","s">>, <<"x">>}

ValueWorlds ==
    { ScanWorld(ValueDecls, Options(IgnorePrefix, TRUE, ListTerminator, TRUE, FALSE),
                ValueTokens) }

InitValue == \E W \in ValueWorlds : InitWorld(W)

SpecValue == InitValue /\ [][Next]_vars

\* tokens that start with "-": a flag with the letter "5", the counting flag "v"
\* and an optional list of positionals, with the toggle
DashDecls ==
    <<Flag("5", NULL, TRUE, "BoolFlag", FALSE),
      Verbose,
      Positional(TRUE, "nums", "String", TRUE, TRUE, NoData)>>

DashTokens ==
    {<<"-","5">>, <<"-","5","v">>, <<"-","v">>, <<"-","v","5">>, <<"-","x">>,
     <<"-","v","x">>, <<"-">>, <<"x">>, DoubleDash}

DashWorlds ==
    { ScanWorld(DashDecls, Options(NULL, FALSE, NULL, TRUE, FALSE), DashTokens) }

InitDash == \E W \in DashWorlds : InitWorld(W)

SpecDash == InitDash /\ [][Next]_vars

\* the counters: every schema of up to MaxCounted positionals, each required or
\* optional, single or a list, with and without the terminator "::", and the
\* schema with a flag between a list and a positional
MaxCounted == 3

CountedKinds == [is_list : BOOLEAN, optional : BOOLEAN]

CountedNames == <<"p1", "p2", "p3", "p4">>

CountedDecls(kinds) ==
    [i \in 1..Len(kinds) |->
        Positional(TRUE, CountedNames[i], "String", kinds[i].is_list, kinds[i].optional, NoData)]

CountedTokens == {<<"x">>, ListTerminator}

CountedWorlds ==
    { ScanWorld(CountedDecls(kinds), Options(NULL, FALSE, term, FALSE, FALSE), CountedTokens) :
        kinds \in UNION { [1..n -> CountedKinds] : n \in 1..MaxCounted },
        term \in {NULL, ListTerminator} }
    \cup
    { ScanWorld(<<Positional(TRUE, "p1", "String", TRUE, FALSE, NoData),
                  Verbose,
                  Positional(TRUE, "p2", "String", FALSE, FALSE, NoData)>>,
                NoOptions, CountedTokens) }

InitCounted == \E W \in CountedWorlds : InitWorld(W)

SpecCounted == InitCounted /\ [][Next]_vars

\* a caller that parses the root and, in a later call, the child "build" as a
\* root of its own
MaxFamilyCalls == 2
MaxFamilyTokens == 2

FamilyTokens == {<<"b","u","i","l","d">>, <<"t","e","s","t">>, <<"x">>, <<"-","v">>}

FamilyWorld(hasVar) ==
    [configs |-> [c \in {"root", "build", "test"} |->
                    CASE c = "root" ->
                            Config(<<Verbose,
                                     Positional(hasVar, "command", "Subcmd", FALSE, FALSE,
                                                Commands)>>,
                                   NoOptions)
                      [] c = "build" -> BuildConfig
                      [] c = "test" -> TestConfig],
     roots |-> {"root", "build"},
     alphabet |-> FamilyTokens,
     maxTokens |-> MaxFamilyTokens,
     calls |-> MaxFamilyCalls]

InitFamily == \E hasVar \in BOOLEAN : InitWorld(FamilyWorld(hasVar))

SpecFamily == InitFamily /\ [][Next]_vars

\* flags of every kind in a root and in its child "go": a bool flag, the counting
\* flag, a config flag, and a flag that has no variable
GoConfig ==
    Config(<<Verbose,
             Flag("c", <<"c","f","g">>, TRUE, "ConfigFlag", FALSE),
             Flag("n", NULL, FALSE, "BoolFlag", FALSE)>>,
           NoOptions)

FlagsRoot ==
    Config(<<Flag("a", NULL, TRUE, "BoolFlag", FALSE),
             Verbose,
             Flag("c", <<"c","f","g">>, TRUE, "ConfigFlag", FALSE),
             Flag("n", NULL, FALSE, "CountFlag", FALSE),
             Positional(TRUE, "command", "Subcmd", FALSE, TRUE,
                        Subcmds(<<[name |-> <<"g","o">>, config |-> "go"]>>))>>,
           NoOptions)

FlagsTokens ==
    {<<"-","v","v","v">>, <<"-","a">>, <<"-","c">>, <<"-","n">>, <<"-","v","c","n">>,
     <<"-","-","v","e","r","b","o","s","e">>, <<"-","-","c","f","g">>, <<"g","o">>}

FlagsWorlds ==
    { [configs |-> [c \in {"root", "go"} |-> IF c = "root" THEN FlagsRoot ELSE GoConfig],
       roots |-> {"root"},
       alphabet |-> FlagsTokens,
       maxTokens |-> MaxTokens,
       calls |-> 1] }

InitFlags == \E W \in FlagsWorlds : InitWorld(W)

SpecFlags == InitFlags /\ [][Next]_vars

\* the toggle before a subcommand: a root with the counting flag and the
\* subcommand "go", whose config has the counting flag and an optional
\* positional; "--" toggles both ways in both
NestedTokens == {DoubleDash, <<"g","o">>, <<"-","v">>, <<"x">>}

NestedWorlds ==
    { [configs |-> [c \in {"root", "go"} |->
                      IF c = "root"
                      THEN Config(<<Verbose,
                                    Positional(TRUE, "command", "Subcmd", FALSE, FALSE,
                                               Subcmds(<<[name |-> <<"g","o">>,
                                                          config |-> "go"]>>))>>,
                                  Options(NULL, FALSE, NULL, toggle, FALSE))
                      ELSE Config(<<Verbose,
                                    Positional(TRUE, "p", "String", FALSE, TRUE, NoData)>>,
                                  Options(NULL, FALSE, NULL, toggle, FALSE))],
       roots |-> {"root"},
       alphabet |-> NestedTokens,
       maxTokens |-> MaxTokens,
       calls |-> 1] : toggle \in BOOLEAN }

InitNested == \E W \in NestedWorlds : InitWorld(W)

SpecNested == InitNested /\ [][Next]_vars

\* freeing: a root with a list option, a string option, the counting flag and
\* the subcommand "go", whose config has a list option and a list of
\* positionals; both duplicate their strings; the caller may free either config
\* whenever no parse is running
MaxFreeTokens == 3

FreeTokens == {<<"-","l","x">>, <<"-","o","x">>, <<"-","v">>, <<"g","o">>, <<"x">>}

FreeWorlds ==
    { [configs |-> [c \in {"root", "go"} |->
                      IF c = "root"
                      THEN Config(<<Option("l", <<"l","i","b">>, TRUE, "String", TRUE, NoData),
                                    Option("o", <<"o","u","t">>, TRUE, "String", FALSE, NoData),
                                    Verbose,
                                    Positional(TRUE, "command", "Subcmd", FALSE, TRUE,
                                               Subcmds(<<[name |-> <<"g","o">>,
                                                          config |-> "go"]>>))>>,
                                  Options(NULL, FALSE, NULL, FALSE, TRUE))
                      ELSE Config(<<Option("l", <<"l","i","b">>, TRUE, "String", TRUE, NoData),
                                    Positional(TRUE, "items", "String", TRUE, TRUE, NoData)>>,
                                  Options(NULL, FALSE, NULL, FALSE, TRUE))],
       roots |-> {"root"},
       alphabet |-> FreeTokens,
       maxTokens |-> MaxFreeTokens,
       calls |-> 1] }

InitFree == \E W \in FreeWorlds : InitWorld(W)

\* clags_config_free(&config), between parses
ConfigFree ==
    /\ pc = "idle"
    /\ \E c \in DOMAIN world.configs :
          /\ mem' = [mem EXCEPT ![c] = FreedLists(world.configs[c], @)]
          /\ cfg' = [cfg EXCEPT ![c] = clags_config_free_allocs(@)]
          /\ last' = [config |-> c, rule |-> "free", index |-> 0, exit |-> FALSE]
    /\ UNCHANGED <<world, ignored, stack, pc, result, missing, call, calls>>
    /\ UNCHANGED todvars

NextFree == Next \/ ConfigFree

SpecFree == InitFree /\ [][NextFree]_vars

-----------------------------------------------------------------------------
(* tod.c: the line search.  Positions are counted from 0 as in the C code:   *)
(* line[k] of the code is CharAt(line, k).                                   *)

\* the largest number of a non-empty set of numbers
Largest(A) == CHOOSE x \in A : \A y \in A : y <= x

\* setup_shift_table with a second loop that also visits the last character
setup_shift_table_WholeNeedle(needle, needle_len, ch) ==
    LET at == {i \in 0..(needle_len - 1) : CharAt(needle, i) = ch}
    IN IF at = {} THEN needle_len ELSE needle_len - Largest(at) - 1

\* setup_shift_table(needle, needle_len, shift_table): shift_table[ch] after both
\* loops.  The first loop stores needle_len everywhere; the second stores
\* needle_len - i - 1 for needle[i], i < needle_len - 1, a later i overwriting an
\* earlier one.
setup_shift_table(needle, needle_len, ch) ==
    LET at == {i \in 0..(needle_len - 2) : CharAt(needle, i) = ch}
    IN IF at = {} THEN needle_len ELSE needle_len - Largest(at) - 1

\* the inner loop of search_line, started with j: the j it stops with
RECURSIVE compare_window(_, _, _, _)
compare_window(line, needle, i, j) ==
    IF j >= 0 /\ CharAt(needle, j) = CharAt(line, i + j)
    THEN compare_window(line, needle, i, j - 1)
    ELSE j

\* the two printf calls of a match at i: "<filename>:<line_number>:<i+1>: ", the
\* line, and the caret under the match, format_len + i columns to the right
Report(filename, line, line_number, i) ==
    LET format_len == Len(filename) + 1 + Len(ToDecimal(line_number)) + 1
                      + Len(ToDecimal(i + 1)) + 2
    IN [filename |-> filename, line_number |-> line_number, column |-> i + 1,
        line |-> line, caret |-> format_len + i]

\* a match handler that resumes one character after the match
AfterMatch_Overlapping(i, needle_len) == i + 1

\* i += needle_len
AfterMatch(i, needle_len) == i + needle_len

\* one pass of the outer loop of search_line at position i: the next i, what
\* was printed, the positions of the line that were read and the shift taken
search_line_pass(filename, line, needle, line_number, i) ==
    LET needle_len == Len(needle)
        j == compare_window(line, needle, i, needle_len - 1)
    IN IF j < 0
       THEN [i |-> AfterMatch(i, needle_len),
             printed |-> <<Report(filename, line, line_number, i)>>,
             reads |-> {i + k : k \in 0..(needle_len - 1)},
             shift |-> needle_len]
       ELSE [i |-> i + setup_shift_table(needle, needle_len,
                                         CharAt(line, i + needle_len - 1)),
             printed |-> <<>>,
             reads |-> {i + k : k \in j..(needle_len - 1)},
             shift |-> setup_shift_table(needle, needle_len,
                                         CharAt(line, i + needle_len - 1))]

\* up to n passes of the outer loop of search_line, from the position at.i with
\* at.printed printed so far; the loop ends when its condition fails.  The passes
\* are taken half by half, which keeps the evaluation shallow on long lines.
RECURSIVE search_line_passes(_, _, _, _, _, _, _)
search_line_passes(filename, line, line_len, needle, line_number, at, n) ==
    IF at.i > line_len - Len(needle) THEN at
    ELSE IF n = 1
    THEN LET pass == search_line_pass(filename, line, needle, line_number, at.i)
         IN [i |-> pass.i, printed |-> at.printed \o pass.printed]
    ELSE search_line_passes(filename, line, line_len, needle, line_number,
             search_line_passes(filename, line, line_len, needle, line_number,
                                at, n \div 2),
             n - (n \div 2))

\* the outer loop of search_line from position i on: everything it prints.  A
\* pass moves i forward, so the loop takes at most line_len + 1 passes.
search_line_loop(filename, line, line_len, needle, line_number, i) ==
    search_line_passes(filename, line, line_len, needle, line_number,
                       [i |-> i, printed |-> <<>>], line_len + 1).printed

\* search_line(filename, line, line_len, needle, line_number): what it prints
search_line(filename, line, line_len, needle, line_number) ==
    IF Len(needle) = 0 \/ Len(needle) > line_len
    THEN <<>>
    ELSE search_line_loop(filename, line, line_len, needle, line_number, 0)

\* the parser's side of a program that only runs tod.c
NoDeclarations ==
    [configs |-> <<>>, roots |-> {}, alphabet |-> {}, maxTokens |-> 0, calls |-> 0]

\* tod.c about to run process, nothing printed yet
InitTod(process) ==
    /\ world = NoDeclarations
    /\ cfg = <<>>
    /\ mem = <<>>
    /\ ignored = <<>>
    /\ stack = <<>>
    /\ pc = "idle"
    /\ result = NoConfig
    /\ missing = <<>>
    /\ last = NoLast
    /\ call = NoCall
    /\ calls = 0
    /\ tod = process
    /\ stdout = <<>>

\* a call search_line(filename, line, line_len, needle, line_number) before its
\* first statement
SearchLineProcess(filename, line, needle, line_number) ==
    [pc |-> "search_line", filename |-> filename, line |-> line, line_len |-> Len(line),
     needle |-> needle, line_number |-> line_number, i |-> 0, reads |-> {},
     shift |-> 0]

\* search_line up to the loop: it returns at once for an empty needle and for a
\* needle longer than the line
SearchLineEnter ==
    /\ tod.pc = "search_line"
    /\ tod' = [tod EXCEPT !.pc = IF Len(tod.needle) = 0 \/ Len(tod.needle) > tod.line_len
                                 THEN "returned" ELSE "loop"]
    /\ UNCHANGED stdout
    /\ UNCHANGED clagsvars

\* one pass of the outer loop
SearchLinePass ==
    /\ tod.pc = "loop"
    /\ tod.i <= tod.line_len - Len(tod.needle)
    /\ LET pass == search_line_pass(tod.filename, tod.line, tod.needle,
                                    tod.line_number, tod.i)
       IN /\ tod' = [tod EXCEPT !.i = pass.i, !.reads = pass.reads,
                                !.shift = pass.shift]
          /\ stdout' = stdout \o pass.printed
    /\ UNCHANGED clagsvars

\* the loop condition fails: search_line returns
SearchLineReturn ==
    /\ tod.pc = "loop"
    /\ tod.i > tod.line_len - Len(tod.needle)
    /\ tod' = [tod EXCEPT !.pc = "returned"]
    /\ UNCHANGED stdout
    /\ UNCHANGED clagsvars

NextSearchLine == SearchLineEnter \/ SearchLinePass \/ SearchLineReturn

\* the concatenation of the strings of a sequence of strings
RECURSIVE Joined(_)
Joined(parts) == IF parts = <<>> THEN <<>> ELSE Head(parts) \o Joined(Tail(parts))

MaxLineLen == 6
MaxNeedleLen == 3
MaxPieces == 3

Todo == <<"T","O","D","O",":">>
SourceName == <<"a",".","c">>

\* lines and needles over two letters, where a needle can overlap itself, and
\* source lines put together from the marker, parts of it and other text
SearchLetters == {"a", "b"}
SearchPieces == {Todo, <<"T","O">>, <<"D","O",":">>, <<"x">>, <<"O">>}
SearchInputs ==
    {[line |-> l, needle |-> n] :
        l \in SeqsUpTo(SearchLetters, MaxLineLen), n \in SeqsUpTo(SearchLetters, MaxNeedleLen)}
    \cup {[line |-> Joined(p), needle |-> Todo] : p \in SeqsUpTo(SearchPieces, MaxPieces)}

InitSearchLine ==
    \E input \in SearchInputs, line_number \in {1, 10} :
        InitTod(SearchLineProcess(SourceName, input.line, input.needle, line_number))

SpecSearchLine == InitSearchLine /\ [][NextSearchLine]_vars

\* search_line runs alone and is not preempted for ever: its loop keeps taking
\* passes while its condition holds
SpecSearchLineFair == SpecSearchLine /\ WF_vars(NextSearchLine)

-----------------------------------------------------------------------------
(* tod.c: the file reader.  A file is the sequence of its characters, or     *)
(* NULL when fopen fails; offsets into it are counted from 0.                *)

MAX_LINE_LEN == 4096

\* the smallest number of a non-empty set of numbers
Smallest(A) == CHOOSE x \in A : \A y \in A : x <= y

\* an fgets that takes the whole rest of the physical line, however long
fgets_WholeLine(content, pos, size) ==
    LET newlines == {k \in (pos + 1)..Len(content) : content[k] = "\n"}
    IN SubSeq(content, pos + 1, IF newlines = {} THEN Len(content) ELSE Smallest(newlines))

\* fgets(line, size, file) with the file at offset pos < Len(content): the
\* characters it stores, at most size - 1 of them, up to and including the first
\* newline
fgets(content, pos, size) ==
    LET limit == IF pos + size - 1 < Len(content) THEN pos + size - 1 ELSE Len(content)
        newlines == {k \in (pos + 1)..limit : content[k] = "\n"}
    IN SubSeq(content, pos + 1, IF newlines = {} THEN limit ELSE Smallest(newlines))

\* line[--line_len] = '\0' when the last character stored is '\n' or '\r'
StripEnd(got) ==
    IF Len(got) > 0 /\ got[Len(got)] \in {"\n", "\r"}
    THEN SubSeq(got, 1, Len(got) - 1)
    ELSE got

\* the loop of search_file with the file at offset pos: everything it prints
RECURSIVE search_file_loop(_, _, _, _, _)
search_file_loop(filename, content, needle, pos, line_number) ==
    IF pos >= Len(content) THEN <<>>
    ELSE LET got == fgets(content, pos, MAX_LINE_LEN)
         IN search_line(filename, StripEnd(got), Len(StripEnd(got)), needle, line_number)
            \o search_file_loop(filename, content, needle, pos + Len(got),
                                line_number + 1)

\* search_file(filename, needle) for a file with this content: what it prints to
\* stdout, what to stderr, and what it returns
search_file(filename, content, needle) ==
    IF content = NULL
    THEN [stdout |-> <<>>, stderr |-> <<[error |-> "Could not open file", path |-> filename]>>,
          result |-> 1]
    ELSE [stdout |-> search_file_loop(filename, content, needle, 0, 1), stderr |-> <<>>,
          result |-> 0]

\* a call search_file(filename, needle) before its first statement
SearchFileProcess(filename, content, needle) ==
    [pc |-> "search_file", filename |-> filename, content |-> content, needle |-> needle,
     pos |-> 0, line_number |-> 1, line |-> <<>>, stderr |-> <<>>, result |-> 0]

\* fopen, and the error return when it fails
SearchFileOpen ==
    /\ tod.pc = "search_file"
    /\ IF tod.content = NULL
       THEN tod' = [tod EXCEPT !.pc = "returned", !.result = 1,
                               !.stderr = search_file(tod.filename, NULL, tod.needle).stderr]
       ELSE tod' = [tod EXCEPT !.pc = "reading"]
    /\ UNCHANGED stdout
    /\ UNCHANGED clagsvars

\* one pass of the loop: fgets stores a line, its last character is dropped if
\* it ends the line, search_line runs on it, line_number is incremented
SearchFileLine ==
    /\ tod.pc = "reading"
    /\ tod.pos < Len(tod.content)
    /\ LET got == fgets(tod.content, tod.pos, MAX_LINE_LEN)
       IN /\ stdout' = stdout \o search_line(tod.filename, StripEnd(got), Len(StripEnd(got)),
                                             tod.needle, tod.line_number)
          /\ tod' = [tod EXCEPT !.pos = tod.pos + Len(got), !.line = StripEnd(got),
                                !.line_number = tod.line_number + 1]
    /\ UNCHANGED clagsvars

\* fgets returns NULL at the end of the file: fclose and return 0
SearchFileClose ==
    /\ tod.pc = "reading"
    /\ tod.pos >= Len(tod.content)
    /\ tod' = [tod EXCEPT !.pc = "returned", !.result = 0]
    /\ UNCHANGED stdout
    /\ UNCHANGED clagsvars

NextSearchFile == SearchFileOpen \/ SearchFileLine \/ SearchFileClose

MaxShortPad == 1
MaxOverrun == 1

\* n characters that are not part of the marker
Filler(n) == [k \in 1..n |-> "x"]

\* lengths of the text before the marker: short ones, and those that put the
\* marker at the end of the read buffer, across its end and after it
PadLengths ==
    (0..MaxShortPad)
    \cup ((MAX_LINE_LEN - Len(Todo) - 2)..(MAX_LINE_LEN - 1 + MaxOverrun))

FileLines == {Filler(k) \o Todo : k \in PadLengths} \cup {<<>>, Filler(2)}

\* files of one or two lines, ended by "\n" or "\r\n", the last line with or
\* without its line end; and a file that cannot be opened
FileContents ==
    {NULL}
    \cup {Joined(<<first, eol, second, IF ended THEN eol ELSE <<>> >>) :
            first \in FileLines, second \in FileLines,
            eol \in {<<"\n">>, <<"\r", "\n">>}, ended \in BOOLEAN}
    \cup {l \o eol : l \in FileLines, eol \in {<<"\n">>, <<"\r", "\n">>}}

InitSearchFile ==
    \E content \in FileContents : InitTod(SearchFileProcess(SourceName, content, Todo))

SpecSearchFile == InitSearchFile /\ [][NextSearchFile]_vars

-----------------------------------------------------------------------------
(* tod.c: directories and main.  The file system is a set of entries, each   *)
(* the names on the way to it, what stat says it is, and what readdir lists  *)
(* or what the file holds.                                                   *)

Dot == <<".">>
DotDot == <<".", ".">>
Newline == <<"\n">>

FileSystem ==
    {[path |-> << <<"d">> >>, kind |-> "dir", content |-> NULL,
      entries |-> <<Dot, DotDot, <<"a">>, <<"s">>, <<".", "g">>, <<"k">>, <<"l">>,
                    <<".", "h">> >>],
     [path |-> << <<"d">>, <<"a">> >>, kind |-> "file", entries |-> <<>>,
      content |-> <<"x">> \o Todo \o Newline \o Todo],
     [path |-> << <<"d">>, <<"s">> >>, kind |-> "dir", content |-> NULL,
      entries |-> <<Dot, DotDot, <<"b">>, <<"k">> >>],
     [path |-> << <<"d">>, <<"s">>, <<"b">> >>, kind |-> "file", entries |-> <<>>,
      content |-> <<"x">> \o Newline \o Todo \o Newline],
     [path |-> << <<"d">>, <<"s">>, <<"k">> >>, kind |-> "file", entries |-> <<>>,
      content |-> Todo \o Newline],
     [path |-> << <<"d">>, <<".", "g">> >>, kind |-> "dir", content |-> NULL,
      entries |-> <<Dot, DotDot, <<"c">> >>],
     [path |-> << <<"d">>, <<".", "g">>, <<"c">> >>, kind |-> "file", entries |-> <<>>,
      content |-> Todo],
     [path |-> << <<"d">>, <<"k">> >>, kind |-> "dir", content |-> NULL,
      entries |-> <<Dot, DotDot, <<"e">> >>],
     [path |-> << <<"d">>, <<"k">>, <<"e">> >>, kind |-> "file", entries |-> <<>>,
      content |-> Todo],
     [path |-> << <<"d">>, <<"l">> >>, kind |-> "dangling", entries |-> <<>>,
      content |-> NULL],
     [path |-> << <<"d">>, <<".", "h">> >>, kind |-> "file", entries |-> <<>>,
      content |-> Todo \o Newline],
     [path |-> << <<"e">> >>, kind |-> "dir", content |-> NULL,
      entries |-> <<Dot, DotDot, <<"a">> >>],
     [path |-> << <<"e">>, <<"a">> >>, kind |-> "file", entries |-> <<>>,
      content |-> <<"x">> \o Newline]}

\* cwk_path_join(dirname, name, item_path, size), for a dirname and a name that
\* need no normalisation
cwk_path_join(dirname, name) == dirname \o <<"/">> \o name

\* the path string of names on the way to an entry
RECURSIVE PathString(_)
PathString(names) ==
    IF Len(names) = 1 THEN names[1]
    ELSE cwk_path_join(PathString(SubSeq(names, 1, Len(names) - 1)), names[Len(names)])

\* what opendir, stat and fopen find at a path
NoEntry == [path |-> <<>>, kind |-> "none", entries |-> <<>>, content |-> NULL]
EntryAt(path) ==
    IF \E e \in FileSystem : PathString(e.path) = path
    THEN CHOOSE e \in FileSystem : PathString(e.path) = path
    ELSE NoEntry

\* an in_paths that only looks at the most recent ignore name
in_paths_LastOnly(paths, item) == Len(paths) > 0 /\ paths[Len(paths)] = item

\* in_paths(paths, item)
in_paths(paths, item) == \E i \in 1..Len(paths) : paths[i] = item

\* what a part of the search printed and which paths it opened, in order
Silent == [stdout |-> <<>>, stderr |-> <<>>, opened |-> <<>>]
Opening(path) == [stdout |-> <<>>, stderr |-> <<>>, opened |-> <<path>>]
Complaint(error, path) ==
    [stdout |-> <<>>, stderr |-> <<[error |-> error, path |-> path]>>, opened |-> <<>>]
Then(first, second) ==
    [stdout |-> first.stdout \o second.stdout, stderr |-> first.stderr \o second.stderr,
     opened |-> first.opened \o second.opened]

RECURSIVE search_dir(_, _, _)
RECURSIVE search_entries(_, _, _, _)

\* the readdir loop of search_dir(dirname, needle, ignore) over the entries not
\* yet read
search_entries(dirname, entries, needle, ignore) ==
    IF entries = <<>> THEN Silent
    ELSE Then(
        IF Head(entries) = Dot \/ Head(entries) = DotDot THEN Silent
        ELSE IF in_paths(ignore, Head(entries)) THEN Silent
        ELSE IF EntryAt(cwk_path_join(dirname, Head(entries))).kind \in {"none", "dangling"}
        THEN Complaint("Could not access", cwk_path_join(dirname, Head(entries)))
        ELSE IF EntryAt(cwk_path_join(dirname, Head(entries))).kind = "dir"
                /\ CharAt(Head(entries), 0) # "."
        THEN search_dir(cwk_path_join(dirname, Head(entries)), needle, ignore)
        ELSE IF EntryAt(cwk_path_join(dirname, Head(entries))).kind = "file"
        THEN Then(Opening(cwk_path_join(dirname, Head(entries))),
                  [stdout |-> search_file(cwk_path_join(dirname, Head(entries)),
                                          EntryAt(cwk_path_join(dirname, Head(entries))).content,
                                          needle).stdout,
                   stderr |-> <<>>, opened |-> <<>>])
        ELSE Silent,
        search_entries(dirname, Tail(entries), needle, ignore))

\* search_dir(dirname, needle, ignore): what it prints and opens
search_dir(dirname, needle, ignore) ==
    IF EntryAt(dirname).kind # "dir"
    THEN Complaint("Could not open directory", dirname)
    ELSE Then(Opening(dirname),
              search_entries(dirname, EntryAt(dirname).entries, needle, ignore))

\* print_usage(program_name)
print_usage(program_name) == <<[usage |-> program_name]>>

\* main(argc, argv) before its first statement
MainProcess(args) ==
    [pc |-> "main", args |-> args, argv |-> args, program_name |-> NULL, ignore |-> <<>>,
     result |-> 0, stderr |-> <<>>, searches |-> <<>>]

\* main up to its loop: the program name is shifted off; without any argument
\* main complains, prints the usage and returns 1
MainStart ==
    /\ tod.pc = "main"
    /\ IF Len(tod.argv) - 1 < 1
       THEN /\ tod' = [tod EXCEPT !.pc = "exited", !.argv = Tail(tod.argv),
                                  !.program_name = Head(tod.argv), !.result = 1,
                                  !.stderr = <<[error |-> "No directory provided",
                                                path |-> NULL]>>]
            /\ stdout' = stdout \o print_usage(Head(tod.argv))
       ELSE /\ tod' = [tod EXCEPT !.pc = "loop", !.argv = Tail(tod.argv),
                                  !.program_name = Head(tod.argv)]
            /\ UNCHANGED stdout
    /\ UNCHANGED clagsvars

\* a pass of the loop for an argument that starts with '!': da_append(&ignore, arg+1)
MainIgnore ==
    /\ tod.pc = "loop"
    /\ tod.argv # <<>>
    /\ CharAt(Head(tod.argv), 0) = "!"
    /\ tod' = [tod EXCEPT !.argv = Tail(tod.argv),
                          !.ignore = Append(tod.ignore, Tail(Head(tod.argv)))]
    /\ UNCHANGED stdout
    /\ UNCHANGED clagsvars

\* a pass of the loop for "--help" or "-h": print_usage and return_defer(0)
MainHelp ==
    /\ tod.pc = "loop"
    /\ tod.argv # <<>>
    /\ CharAt(Head(tod.argv), 0) # "!"
    /\ Head(tod.argv) \in {<<"-", "-", "h", "e", "l", "p">>, <<"-", "h">>}
    /\ tod' = [tod EXCEPT !.pc = "defer", !.argv = Tail(tod.argv), !.result = 0]
    /\ stdout' = stdout \o print_usage(tod.program_name)
    /\ UNCHANGED clagsvars

\* a pass of the loop for any other argument: search_dir(arg, "TODO:", ignore)
MainSearch ==
    /\ tod.pc = "loop"
    /\ tod.argv # <<>>
    /\ CharAt(Head(tod.argv), 0) # "!"
    /\ Head(tod.argv) \notin {<<"-", "-", "h", "e", "l", "p">>, <<"-", "h">>}
    /\ LET searched == search_dir(Head(tod.argv), Todo, tod.ignore)
       IN /\ tod' = [tod EXCEPT !.argv = Tail(tod.argv),
                                !.stderr = tod.stderr \o searched.stderr,
                                !.searches = Append(tod.searches,
                                    [dirname |-> Head(tod.argv), ignore |-> tod.ignore,
                                     opened |-> searched.opened])]
          /\ stdout' = stdout \o searched.stdout
    /\ UNCHANGED clagsvars

\* the loop ran out of arguments, or return_defer was taken: free(ignore.items)
\* and return result
MainDefer ==
    /\ \/ tod.pc = "loop" /\ tod.argv = <<>>
       \/ tod.pc = "defer"
    /\ tod' = [tod EXCEPT !.pc = "exited", !.ignore = <<>>]
    /\ UNCHANGED stdout
    /\ UNCHANGED clagsvars

NextMain == MainStart \/ MainIgnore \/ MainHelp \/ MainSearch \/ MainDefer

MaxArgs == 4

\* arguments: two directories, a name that is no directory, names to ignore and
\* the two spellings of the help option
MainArguments ==
    {<<"d">>, <<"e">>, <<"n">>, <<"!", "k">>, <<"!", "a">>, <<"-", "h">>,
     <<"-", "-", "h", "e", "l", "p">>}

InitMain ==
    \E arguments \in SeqsUpTo(MainArguments, MaxArgs) :
        InitTod(MainProcess(<<ProgramName>> \o arguments))

SpecMain == InitMain /\ [][NextMain]_vars

-----------------------------------------------------------------------------
(* What the caller observes *)

\* a clags_parse call of the caller has returned
Returned == pc = "idle" /\ call.config /= NoConfig
\* ... the first one, a later one
FirstCallReturned == Returned /\ calls = world.calls - 1
LaterCallReturned == Returned /\ calls < world.calls - 1

\* the config the caller parsed last, and its declarations
Called == world.configs[call.config]

\* the caller's variables as they were before any call
Untouched ==
    /\ mem = [c \in DOMAIN world.configs |->
                [i \in 1..Len(world.configs[c].args) |->
                    InitialValue(world.configs[c].args[i])]]
    /\ ignored = [c \in DOMAIN world.configs |-> EmptyList]

\* the first call failed validation the way the spec describes it
FailedInvalidConfig ==
    /\ result = call.config
    /\ cfg[call.config].invalid
    /\ cfg[call.config].error = "Clags_Error_InvalidConfig"

IsPositional(K, i) == K.args[i].type = "Positional"

-----------------------------------------------------------------------------
(* C1 *)

\* C1 (as claimed): once a parse call on a schema has failed validation, a later
\* parse call on it returns that schema again, with error kind InvalidConfig, and
\* scans no token.
C1_LaterParseReportsInvalidConfig ==
    (LaterCallReturned /\ cfg[call.config].invalid) =>
        /\ result = call.config
        /\ cfg[call.config].error = "Clags_Error_InvalidConfig"
        /\ last.rule = "none"

-----------------------------------------------------------------------------
(* C2 *)

\* a required positional is declared after an optional one
RequiredAfterOptional(K) ==
    \E i, j \in 1..Len(K.args) :
        /\ i < j
        /\ IsPositional(K, i) /\ K.args[i].optional
        /\ IsPositional(K, j) /\ ~K.args[j].optional

\* C2 (as claimed): a schema with a required positional after an optional one makes
\* parse fail with InvalidConfig before any token is read: the schema is returned
\* and marked invalid, and no variable or list is written, whatever the tokens are.
C2_RequiredAfterOptionalFailsInvalidConfig ==
    (FirstCallReturned /\ RequiredAfterOptional(Called)) =>
        /\ FailedInvalidConfig
        /\ Untouched
        /\ last.rule = "none"

-----------------------------------------------------------------------------
(* C3 *)

\* without a terminator, a list positional that is not the last positional
ListNotLast(K) ==
    /\ K.options.list_terminator = NULL
    /\ \E i, j \in 1..Len(K.args) :
        /\ i < j
        /\ IsPositional(K, i) /\ K.args[i].is_list
        /\ IsPositional(K, j)

\* C3 (as claimed): validation rejects every schema without a list terminator in
\* which a list positional is not the last positional, wherever options and flags
\* are declared.
C3_ListNotLastRejected ==
    (FirstCallReturned /\ ListNotLast(Called)) =>
        /\ result = call.config
        /\ cfg[call.config].invalid

-----------------------------------------------------------------------------
(* C4 *)

\* a subcommand positional together with another positional
SubcmdNotAlone(K) ==
    \E i, j \in 1..Len(K.args) :
        /\ i /= j
        /\ IsPositional(K, i) /\ K.args[i].value_type = "Subcmd"
        /\ IsPositional(K, j)

\* C4 (as claimed): validation rejects every schema that has a subcommand positional
\* and any other positional, declared before or after it, whatever its type or name.
C4_SubcmdNotAloneRejected ==
    (FirstCallReturned /\ SubcmdNotAlone(Called)) =>
        /\ result = call.config
        /\ cfg[call.config].invalid

-----------------------------------------------------------------------------
(* C5 *)

\* a declaration whose value type lacks its payload, or a subcommand option
LacksPayload(a) ==
    \/ a.type \in {"Positional", "Option"}
       /\ a.value_type \in {"Choice", "Custom"} /\ a.data.kind = "NULL"
    \/ a.type = "Positional" /\ a.value_type = "Subcmd" /\ a.data.kind = "NULL"
    \/ a.type = "Option" /\ a.value_type = "Subcmd"

\* C5 (as claimed): for every schema with a choice without its set, a custom type
\* without its verify function, a subcommand positional without its set, or a
\* subcommand option, parse returns the schema, marks it invalid and sets its error
\* kind to InvalidConfig.
C5_MissingPayloadFailsInvalidConfig ==
    (FirstCallReturned /\ \E i \in 1..Len(Called.args) : LacksPayload(Called.args[i])) =>
        FailedInvalidConfig

-----------------------------------------------------------------------------
(* C6 *)

\* C6 (as claimed): when the first argument names an entry of the subcommand set
\* that has a child config, the scanner binds the entry, sets the child's parent to
\* the running config, parses the arguments after the name against the child (whose
\* program name is then the subcommand name), and returns the child's result
\* unchanged: success, or the child with the child's failure.
C6_MatchedSubcmdRunsChild ==
    Returned =>
        \A i \in 1..Len(Called.args) :
            \A k \in 1..Len(Called.args[i].data.items) :
                ( /\ IsPositional(Called, i) /\ Called.args[i].value_type = "Subcmd"
                  /\ Len(call.argv) >= 2
                  /\ SubcmdIndex(call.argv[2], Called.args[i].data) = k
                  /\ Called.args[i].data.items[k].config /= NoConfig )
                =>
                LET child == Called.args[i].data.items[k].config IN
                /\ Called.args[i].variable => mem[call.config][i] = k
                /\ cfg[child].parent = call.config
                /\ last.config = child \/ cfg[child].invalid
                /\ ~cfg[child].invalid => cfg[child].name = call.argv[2]
                /\ result \in {NoConfig, child}
                /\ result = child <=>
                        (cfg[child].invalid \/ cfg[child].error /= "Clags_Error_Ok")

-----------------------------------------------------------------------------
(* C7 *)

\* the arguments of the call that are not the flag -v, in order
PlainTokens == SelectSeq(Tail(call.argv), LAMBDA t : t /= <<"-","v">>)

-----------------------------------------------------------------------------
(* C8 *)

\* the names of the required positionals of config c that nothing is bound to, in
\* declaration order
UnboundRequired(c) ==
    LET K == world.configs[c]
        idx == SelectSeq(positional(K),
                         LAMBDA i : ~K.args[i].optional
                                    /\ mem[c][i] = InitialValue(K.args[i]))
    IN [k \in 1..Len(idx) |-> K.args[idx[k]].arg_name]

\* C8: at the end of the arguments the scanner fails with TooFewArguments exactly
\* when a required positional is left unsatisfied, and the names it reports missing
\* are the unsatisfied required positionals, each once, in declaration order.
C8_TooFewNamesTheUnboundRequired ==
    last.rule = "end" =>
        LET c == last.config IN
        IF UnboundRequired(c) /= <<>>
        THEN /\ result = c
             /\ cfg[c].error = "Clags_Error_TooFewArguments"
             /\ missing = UnboundRequired(c)
        ELSE /\ result = NoConfig
             /\ cfg[c].error = "Clags_Error_Ok"
             /\ missing = <<>>

\* one of two required positionals was bound, the other is reported
C8_Witness ==
    /\ Returned
    /\ last.rule = "end"
    /\ result = "root"
    /\ mem["root"][1] = <<"x">>
    /\ missing = <<"second">>

-----------------------------------------------------------------------------
(* C9 *)

\* C9 (as claimed): in a config without list and subcommand positionals, arguments
\* that are all plain words and more than the positionals declared fail with
\* TooManyArguments at the first word beyond the slots, which is bound to nothing;
\* a config that declares no positionals rejects every such word this way.
C9_ExcessPositionalRejected ==
    ( /\ Returned
      /\ \A i \in 1..Len(Called.args) :
            IsPositional(Called, i) =>
                ~Called.args[i].is_list /\ Called.args[i].value_type /= "Subcmd"
      /\ \A k \in 2..Len(call.argv) : call.argv[k] \in {<<"x">>, <<"y">>}
      /\ Len(call.argv) - 1 > Len(positional(Called)) )
    =>
    /\ result = call.config
    /\ cfg[call.config].error = "Clags_Error_TooManyArguments"
    /\ \A k \in 1..Len(positional(Called)) :
            mem[call.config][positional(Called)[k]] = call.argv[k + 1]

-----------------------------------------------------------------------------
(* C10 *)

\* the variable of a flag after n occurrences of the flag in config c
FlagEffect(c, flag, v, n) ==
    IF n = 0 \/ ~flag.variable THEN v
    ELSE CASE flag.flag_type = "BoolFlag"     -> TRUE
           [] flag.flag_type = "ConfigFlag"   -> c
           [] flag.flag_type = "CountFlag"    -> v + n
           [] flag.flag_type = "CallbackFlag" -> v + n

IsExitFlag(K, i) == K.args[i].type = "Flag" /\ K.args[i].exit

\* the first character of a short group that is the letter of an exit flag
ExitPosition(K, group) ==
    CHOOSE p \in 1..Len(group) :
        /\ \E i \in 1..Len(K.args) : IsExitFlag(K, i) /\ K.args[i].short_flag = group[p]
        /\ \A q \in 1..(p - 1) :
            ~\E i \in 1..Len(K.args) : IsExitFlag(K, i) /\ K.args[i].short_flag = group[q]

\* the first exit flag with the letter ch
FirstExit(K, ch) ==
    CHOOSE i \in 1..Len(K.args) :
        /\ IsExitFlag(K, i) /\ K.args[i].short_flag = ch
        /\ \A j \in 1..(i - 1) : ~(IsExitFlag(K, j) /\ K.args[j].short_flag = ch)

\* how often declaration i is matched by the token that exits: in a short group,
\* once for every character before the exit character that is its letter, and once
\* at the exit character if it has that letter and is declared no later than the
\* exit flag; as a long flag, once if it is the first flag of that name
Occurrences(K, token, i) ==
    IF K.args[i].type /= "Flag" THEN 0
    ELSE IF HasPrefix(token, DoubleDash)
    THEN IF /\ K.args[i].long_flag = Skip(token, 2)
            /\ \A j \in 1..(i - 1) :
                ~(K.args[j].type = "Flag" /\ K.args[j].long_flag = Skip(token, 2))
         THEN 1 ELSE 0
    ELSE LET group == Skip(token, 1)
             p == ExitPosition(K, group)
             e == FirstExit(K, group[p])
         IN Cardinality({q \in 1..(p - 1) : group[q] = K.args[i].short_flag})
            + (IF K.args[i].short_flag = group[p] /\ i <= e THEN 1 ELSE 0)

\* a pass of the token loop in which an exit flag is matched
ExitStep == pc = "scan" /\ last'.exit

\* C10: when an exit flag is matched, by its long name, by its letter or inside a
\* short group, in the root config or in a child, the flags matched up to it have
\* their effect, nothing after it in the token or in the arguments has any, no
\* error is set, and every call on the stack returns success at once.
C10_ExitFlagEndsParse ==
    [][ /\ ExitStep =>
            LET f == stack[Len(stack)]
                c == f.config
                K == world.configs[c]
                token == Argv(f, f.index)
            IN /\ pc' = "return"
               /\ result' = NoConfig
               /\ stack' = SubSeq(stack, 1, Len(stack) - 1)
               /\ cfg' = cfg /\ ignored' = ignored /\ missing' = missing
               /\ mem' = [mem EXCEPT ![c] =
                            [i \in 1..Len(K.args) |->
                                FlagEffect(c, K.args[i], mem[c][i], Occurrences(K, token, i))]]
        /\ (pc = "return" /\ last.exit) =>
            /\ pc' \in {"return", "idle"}
            /\ result' = NoConfig
            /\ UNCHANGED <<cfg, mem, ignored, missing, last>>
      ]_vars

\* build -hv x: in the child the counter and the exit flag on the letter h are set,
\* the third flag on h, the v after it and the argument x are not
C10_Witness ==
    /\ Returned
    /\ call.argv = <<ProgramName, <<"b","u","i","l","d">>, <<"-","h","v">>, <<"x">>>>
    /\ Called.args[3].variable
    /\ last.exit /\ last.config = "build"
    /\ result = NoConfig
    /\ mem["build"] = <<0, 1, "build", FALSE, NULL, NULL>>

-----------------------------------------------------------------------------
(* C11 *)

Letters == {LowerChars[i] : i \in 1..Len(LowerChars)} \cup {UpperChars[i] : i \in 1..Len(UpperChars)}

\* ch is the letter of a flag of K and of no option of K
IsFlagLetter(K, ch) ==
    /\ ch \in Letters
    /\ \E i \in 1..Len(K.args) : K.args[i].type = "Flag" /\ K.args[i].short_flag = ch
    /\ ~\E i \in 1..Len(K.args) : K.args[i].type = "Option" /\ K.args[i].short_flag = ch

\* the running call and its next argument, while it scans
Running == stack[Len(stack)]
RunningConfig == world.configs[Running.config]
NextToken == Argv(Running, Running.index)
Scanning == pc = "scan" /\ Running.index < Argc(Running)

\* the frame f with its next argument replaced by the arguments tokens
Respelled(f, tokens) ==
    [f EXCEPT !.argv = SubSeq(f.argv, 1, f.index) \o tokens
                       \o SubSeq(f.argv, f.index + 2, Len(f.argv))]

\* the locals of two runs agree but for the arguments and the index
SameLocals(f, g) ==
    /\ f.config = g.config
    /\ f.arguments_ignored = g.arguments_ignored
    /\ f.in_list = g.in_list
    /\ f.parsing_optionals = g.parsing_optionals
    /\ f.accept_options = g.accept_options
    /\ f.positional_count = g.positional_count
    /\ f.required_count = g.required_count

\* the step taken leaves the call as the scan S of a respelling of its next
\* argument does: the same variables, lists, errors, locals and result
StepAgreesWith(S) ==
    /\ mem' = S.mem /\ cfg' = S.cfg /\ ignored' = S.ignored /\ missing' = S.missing
    /\ IF S.out = "return"
       THEN pc' = "return" /\ result' = S.ret /\ Len(stack') = Len(stack) - 1
       ELSE /\ pc' = "scan" /\ Len(stack') = Len(stack)
            /\ SameLocals(stack'[Len(stack')], S.f)
            /\ Argc(stack'[Len(stack')]) - stack'[Len(stack')].index = Argc(S.f) - S.f.index

\* C11: a short group "-abc" of flag letters (none of them an option's letter),
\* where it is scanned as a short group, leaves every flag variable and counter, the
\* locals of the call and the result as scanning "-a" "-b" "-c" in its place does.
C11_GroupIsItsSingleFlags ==
    [][ ( /\ Scanning
          /\ Dispatch(RunningConfig, Running, NextToken) = "short"
          /\ Len(NextToken) > 2
          /\ \A p \in 2..Len(NextToken) : IsFlagLetter(RunningConfig, NextToken[p]) )
        =>
        LET singles == [p \in 1..(Len(NextToken) - 1) |-> <<"-", NextToken[p + 1]>>]
        IN StepAgreesWith(ScanTokens(RunningConfig,
                                     Machine(Respelled(Running, singles)),
                                     Len(singles)))
      ]_vars

\* -ab -bea x: a is set, b counted twice, the second flag on b set, the exit flag e
\* ends the parse before the a after it and before x
C11_Witness ==
    /\ Returned
    /\ call.argv = <<ProgramName, <<"-","a","b">>, <<"-","b","e","a">>, <<"x">>>>
    /\ mem["root"] = <<TRUE, 2, TRUE, TRUE, NULL, EmptyList, NULL>>
    /\ result = NoConfig
    /\ last.exit

-----------------------------------------------------------------------------
(* C12 *)

IsOptionLetter(K, ch) ==
    \E i \in 1..Len(K.args) : K.args[i].type = "Option" /\ K.args[i].short_flag = ch

\* the first character of the group that is an option's letter, and the first
\* option declared with the letter ch
OptionPosition(K, group) ==
    CHOOSE p \in 1..Len(group) :
        /\ IsOptionLetter(K, group[p])
        /\ \A q \in 1..(p - 1) : ~IsOptionLetter(K, group[q])

FirstOption(K, ch) ==
    CHOOSE i \in 1..Len(K.args) :
        /\ K.args[i].type = "Option" /\ K.args[i].short_flag = ch
        /\ \A j \in 1..(i - 1) : ~(K.args[j].type = "Option" /\ K.args[j].short_flag = ch)

\* the arguments after the next one that do not start with the ignore prefix
\* (as indices of argv)
LaterValues(K, f) ==
    {j \in (f.index + 1)..(Argc(f) - 1) : ~IsIgnored(K, Argv(f, j))}

Min(A) == CHOOSE x \in A : \A y \in A : x <= y

\* the variable v of declaration a after value is bound to it
BoundTo(a, v, w, value) ==
    IF a.is_list
    THEN w.items = Append(v.items, value) /\ w.count = v.count + 1
    ELSE w = value

\* C12: in a short group whose characters before the first option letter are
\* letters of flags that do not exit, those flags have their effect, the option
\* takes the rest of the token as its value or, when nothing follows the letter,
\* the next argument that is not ignored (InvalidOption when there is none), and
\* no character after the option letter is evaluated: no other variable changes.
C12_OptionTakesRestOfGroup ==
    [][ ( /\ Scanning
          /\ Dispatch(RunningConfig, Running, NextToken) = "short"
          /\ \E p \in 2..Len(NextToken) : IsOptionLetter(RunningConfig, NextToken[p])
          /\ \A q \in 1..(OptionPosition(RunningConfig, Skip(NextToken, 1)) - 1) :
                /\ IsFlagLetter(RunningConfig, NextToken[q + 1])
                /\ ~\E i \in 1..Len(RunningConfig.args) :
                        /\ IsExitFlag(RunningConfig, i)
                        /\ RunningConfig.args[i].short_flag = NextToken[q + 1] )
        =>
        LET K == RunningConfig
            f == Running
            c == f.config
            group == Skip(NextToken, 1)
            p == OptionPosition(K, group)
            o == FirstOption(K, group[p])
            attached == p < Len(group)
            found == attached \/ LaterValues(K, f) /= {}
            at == IF attached THEN f.index ELSE Min(LaterValues(K, f))
            value == IF attached THEN Skip(group, p) ELSE Argv(f, at)
        IN /\ \A i \in 1..Len(K.args) :
                IF i = o /\ found THEN BoundTo(K.args[o], mem[c][o], mem'[c][o], value)
                ELSE IF K.args[i].type = "Flag"
                THEN mem'[c][i] = FlagEffect(c, K.args[i], mem[c][i],
                        Cardinality({q \in 1..(p - 1) : group[q] = K.args[i].short_flag}))
                ELSE mem'[c][i] = mem[c][i]
           /\ ignored' = ignored
           /\ IF found
              THEN /\ pc' = "scan" /\ cfg' = cfg
                   /\ stack'[Len(stack')].index = at + 1
                   /\ stack'[Len(stack')].positional_count = f.positional_count
              ELSE /\ pc' = "return" /\ result' = c
                   /\ cfg'[c].error = "Clags_Error_InvalidOption"
      ]_vars

\* -oab -l !s x: o is "ab" with the flags a and b unset, and the list l takes x, the
\* next argument that is not ignored
C12_Witness ==
    /\ Returned
    /\ call.argv = <<ProgramName, <<"-","o","a","b">>, <<"-","l">>, <<"!","s">>, <<"x">>>>
    /\ mem["root"][1] = FALSE /\ mem["root"][2] = 0 /\ mem["root"][3] = FALSE
    /\ mem["root"][5] = <<"a","b">>
    /\ mem["root"][6].items = <<<<"x">>>>
    /\ result = NoConfig

-----------------------------------------------------------------------------
(* C13 *)

\* C13: for a declared long option N and a value v that is not empty and does not
\* start with the ignore prefix, the token "--N=v", where it is scanned as a long
\* option, leaves the binding (the value, or the element appended to the list), the
\* error and the result that the two tokens "--N" "v" in its place leave.
C13_AttachedValueIsNextValue ==
    [][ Scanning => \A i \in 1..Len(RunningConfig.args) :
          ( /\ Dispatch(RunningConfig, Running, NextToken) = "long"
            /\ RunningConfig.args[i].type = "Option"
            /\ RunningConfig.args[i].long_flag /= NULL
            /\ HasPrefix(Skip(NextToken, 2), RunningConfig.args[i].long_flag)
            /\ Len(NextToken) > Len(RunningConfig.args[i].long_flag) + 3
            /\ NextToken[Len(RunningConfig.args[i].long_flag) + 3] = "="
            /\ ~IsIgnored(RunningConfig,
                          Skip(NextToken, Len(RunningConfig.args[i].long_flag) + 3)) )
          =>
          LET N == RunningConfig.args[i].long_flag
              v == Skip(NextToken, Len(N) + 3)
          IN StepAgreesWith(ScanTokens(RunningConfig,
                                       Machine(Respelled(Running, <<DoubleDash \o N, v>>)),
                                       1))
      ]_vars

\* --lib=x --out=x --force=x: the list has x, out is x, and the bool option rejects x
C13_Witness ==
    /\ Returned
    /\ call.argv = <<ProgramName, <<"-","-","l","i","b","=","x">>,
                     <<"-","-","o","u","t","=","x">>,
                     <<"-","-","f","o","r","c","e","=","x">>>>
    /\ mem["root"][1] = <<"x">>
    /\ mem["root"][2].items = <<<<"x">>>>
    /\ result = "root"
    /\ cfg["root"].error = "Clags_Error_InvalidValue"

-----------------------------------------------------------------------------
(* C14 *)

\* how many of the arguments the running call has passed are "--"
TogglesPassed ==
    Cardinality({j \in 1..(Running.index - 1) : Argv(Running, j) = DoubleDash})

ToggleBack == RunningConfig.options.allow_option_parsing_toggle

\* the pass leaves the call in the loop, its counters and open list as they were
CountersKept ==
    /\ pc' = "scan"
    /\ Len(stack') = Len(stack)
    /\ stack'[Len(stack')].positional_count = Running.positional_count
    /\ stack'[Len(stack')].required_count = Running.required_count
    /\ stack'[Len(stack')].in_list = Running.in_list

\* the pass binds nothing
NothingBound == mem' = mem /\ ignored' = ignored /\ cfg' = cfg

\* the pass consumes the next argument as a positional: bound to the positional
\* that is next, or rejected as one too many; no flag or option variable changes
TakenAsPositional ==
    LET K == RunningConfig
        f == Running
        c == f.config
        P == positional(K)
    IN IF f.positional_count < Len(P)
       THEN /\ BoundTo(K.args[P[f.positional_count + 1]],
                       mem[c][P[f.positional_count + 1]],
                       mem'[c][P[f.positional_count + 1]], NextToken)
            /\ \A i \in 1..Len(K.args) :
                    i /= P[f.positional_count + 1] => mem'[c][i] = mem[c][i]
            /\ pc' = "scan"
       ELSE /\ mem' = mem
            /\ pc' = "return" /\ result' = c
            /\ cfg'[c].error = "Clags_Error_TooManyArguments"

\* C14: without toggling back, the first "--" of a run turns option parsing off and
\* is bound to nothing; after it no argument of the run is taken as an option or a
\* flag: an ignored argument and the list terminator apart, every argument, "--"
\* and arguments with a leading "-" included, is consumed as a positional or a list
\* value, or rejected as one positional too many.
C14_FirstToggleDisablesOptions ==
    /\ []((pc = "scan" /\ ~ToggleBack) => (Running.accept_options <=> TogglesPassed = 0))
    /\ [][ (Scanning /\ ~ToggleBack) =>
            IF TogglesPassed = 0
            THEN NextToken = DoubleDash =>
                    /\ NothingBound /\ CountersKept
                    /\ ~stack'[Len(stack')].accept_options
            ELSE IF IsIgnored(RunningConfig, NextToken)
                    \/ NextToken = RunningConfig.options.list_terminator
            THEN mem' = mem /\ pc' = "scan"
            ELSE TakenAsPositional
         ]_vars

\* -- -v -- x: the flag is not counted; -v is the first positional, and -- and x
\* are in the list
C14_Witness ==
    /\ Returned
    /\ ~Called.options.allow_option_parsing_toggle
    /\ call.argv = <<ProgramName, DoubleDash, <<"-","v">>, DoubleDash, <<"x">>>>
    /\ mem["root"][1] = 0
    /\ mem["root"][2] = <<"-","v">>
    /\ mem["root"][3].items = <<DoubleDash, <<"x">>>>
    /\ result = NoConfig

-----------------------------------------------------------------------------
(* C15 *)

\* C15: with toggling back, every "--" the run comes to flips option parsing and is
\* bound to nothing; options are accepted exactly while the number of "--" passed
\* is even: an argument with a leading "-" is then taken as an option or a flag
\* (no positional is bound), and after an odd number it is consumed as a
\* positional like any other argument.
C15_ToggleFlipsOptionParsing ==
    /\ []((pc = "scan" /\ ToggleBack) => (Running.accept_options <=> TogglesPassed % 2 = 0))
    /\ [][ (Scanning /\ ToggleBack) =>
            IF NextToken = DoubleDash
            THEN /\ NothingBound /\ CountersKept
                 /\ stack'[Len(stack')].accept_options = ~Running.accept_options
            ELSE IF IsIgnored(RunningConfig, NextToken)
                    \/ NextToken = RunningConfig.options.list_terminator
            THEN mem' = mem /\ pc' = "scan"
            ELSE IF TogglesPassed % 2 = 1 THEN TakenAsPositional
            ELSE NextToken[1] = "-" =>
                    /\ \A i \in 1..Len(RunningConfig.args) :
                            IsPositional(RunningConfig, i) =>
                                mem'[Running.config][i] = mem[Running.config][i]
                    /\ pc' = "scan" => CountersKept
         ]_vars

\* -- -v -- -v: the first -v is the first positional, the second is counted
C15_Witness ==
    /\ Returned
    /\ Called.options.allow_option_parsing_toggle
    /\ call.argv = <<ProgramName, DoubleDash, <<"-","v">>, DoubleDash, <<"-","v">>>>
    /\ mem["root"][1] = 1
    /\ mem["root"][2] = <<"-","v">>
    /\ mem["root"][3] = EmptyList
    /\ result = NoConfig

-----------------------------------------------------------------------------
(* C16 *)

\* the arguments the running call has passed that start with the ignore prefix,
\* without the prefix, in argument order
RECURSIVE SkippedUpTo(_)
SkippedUpTo(n) ==
    IF n = 0 THEN <<>>
    ELSE IF IsIgnored(RunningConfig, Argv(Running, n))
    THEN Append(SkippedUpTo(n - 1),
                SubSeq(Argv(Running, n), Len(RunningConfig.options.ignore_prefix) + 1,
                       Len(Argv(Running, n))))
    ELSE SkippedUpTo(n - 1)

\* C16: with a list for the ignored arguments, the list holds every argument passed
\* that starts with the ignore prefix, without the prefix and in argument order,
\* wherever the argument was skipped.
C16_IgnoredArgumentsRecorded ==
    (pc = "scan" /\ RunningConfig.options.ignored_args)
        => ignored[Running.config].items = SkippedUpTo(Running.index - 1)

-----------------------------------------------------------------------------
(* C17 *)

InputErrors ==
    {"Clags_Error_InvalidValue", "Clags_Error_InvalidOption",
     "Clags_Error_TooManyArguments", "Clags_Error_TooFewArguments"}

\* arguments that are in error wherever the loop comes to them while options are
\* accepted: unknown flag, unknown option, empty and rejected attached value
Offending ==
    {<<"-","z">>, <<"-","-","z","z">>, <<"-","-","n","u","m","=">>,
     <<"-","-","n","u","m","=","x">>}

\* the pass notes an input error in the running schema
RaisesInputError ==
    /\ cfg[Running.config].error = "Clags_Error_Ok"
    /\ cfg'[Running.config].error \in InputErrors

\* C17: the pass that meets an input error (a rejected value, an unknown or
\* malformed option or flag, an option without its value, a positional too many)
\* ends the scan: parse returns the running schema at once, and from then on no
\* variable, list or ignored-arguments list changes.
C17_FirstInputErrorStopsScan ==
    [][ /\ (Scanning /\ NextToken \in Offending) => RaisesInputError
        /\ (pc = "scan" /\ RaisesInputError) => (pc' = "return" /\ result' = Running.config)
        /\ (\E c \in DOMAIN cfg : cfg[c].error \in InputErrors) =>
                /\ mem' = mem /\ ignored' = ignored /\ cfg' = cfg
                /\ pc' /= "scan"
      ]_vars

\* -v --num=x x: the rejected value ends the parse; the positional is not bound
C17_Witness ==
    /\ Returned
    /\ call.argv = <<ProgramName, <<"-","v">>, <<"-","-","n","u","m","=","x">>, <<"x">>>>
    /\ result = "root"
    /\ cfg["root"].error = "Clags_Error_InvalidValue"
    /\ last.index = 2
    /\ mem["root"][1] = 1
    /\ mem["root"][3] = InitialValue(Called.args[3])

-----------------------------------------------------------------------------
(* C18 *)

\* C18: the schema a parse returns as failed holds the error kind; it is never Ok.
C18_FailedSchemaHoldsErrorKind ==
    (Returned /\ result /= NoConfig) => cfg[result].error /= "Clags_Error_Ok"

-----------------------------------------------------------------------------
(* C19 *)

ErrorKinds == InputErrors \cup {"Clags_Error_InvalidConfig"}

\* C19: a parse that returns a schema returns it as failed, with one of the error
\* kinds in its error field.
C19_ReturnsSuccessOrErrorKind ==
    (Returned /\ result /= NoConfig) => cfg[result].error \in ErrorKinds

-----------------------------------------------------------------------------
(* C20 *)

\* the kind of the integers of the running schema
RunningKind == RunningConfig.args[2].value_type

\* the pass rejects the value: nothing is written and the parse fails InvalidValue
RejectedValue ==
    /\ mem' = mem
    /\ pc' = "return" /\ result' = Running.config
    /\ cfg'[Running.config].error = "Clags_Error_InvalidValue"

\* the pass binds n to declaration i and stays in the loop without an error
BindsInteger(i, n) ==
    /\ mem'[Running.config][i] = n
    /\ pc' = "scan"
    /\ cfg'[Running.config].error = "Clags_Error_Ok"

\* C20: for the signed and the unsigned 8-bit kind, the decimal string of every
\* value from min to max is accepted, as a positional and as an option value, and
\* binds that value; the decimal strings of min-1 and max+1 are rejected, write
\* nothing and fail the parse with InvalidValue; the unsigned kind rejects every
\* value with a leading minus.
C20_IntegerRangeIsExact ==
    [][ Scanning =>
         /\ \A n \in KindMin(RunningKind)..KindMax(RunningKind) :
                /\ NextToken = ToDecimal(n) => BindsInteger(2, n)
                /\ NextToken = NumOption \o ToDecimal(n) => BindsInteger(1, n)
         /\ \A n \in {KindMin(RunningKind) - 1, KindMax(RunningKind) + 1} :
                NextToken \in {ToDecimal(n), NumOption \o ToDecimal(n)} => RejectedValue
         /\ RunningKind = "UInt8" =>
                \A t \in Numerals("UInt8") \cup OtherNumerals :
                    (t /= <<>> /\ t[1] = "-" /\ NextToken \in {t, NumOption \o t})
                        => RejectedValue
      ]_vars

\* -128 is bound to the signed positional
C20_Witness ==
    /\ Returned
    /\ Called.args[2].value_type = "Int8"
    /\ call.argv = <<ProgramName, <<"-","1","2","8">>>>
    /\ mem["root"][2] = INT8_MIN
    /\ result = NoConfig

-----------------------------------------------------------------------------
(* C21 *)

\* the factors of the units that fit the integers of the model
SmallFactor(u) ==
    CASE u \in {<<>>, <<"B">>}                      -> 1
      [] u \in {<<"K","i","B">>, <<"k","i","b">>}  -> 1024
      [] u \in {<<"K","B">>, <<"K","b">>}          -> 1000
      [] u = <<"M","i","B">>                        -> 1048576
      [] u \in {<<"M","B">>, <<"m","B">>}          -> 1000000

SmallUnits ==
    {<<>>, <<"B">>, <<"K","i","B">>, <<"k","i","b">>, <<"K","B">>, <<"K","b">>,
     <<"M","i","B">>, <<"M","B">>, <<"m","B">>}

\* the zeros of the decimal factors beyond them
Zeros(u) == IF u = <<"G","B">> THEN 9 ELSE 12

\* products written out
SizeProducts ==
    [t \in {<<"1","0","2","4">>, <<"1","8","4","4","6","7","4","4","0","7","3","7","0","9","5","5","1","6","1","5">>, <<"1","8","0","1","4","3","9","8","5","0","9","4","8","1","9","8","3","K","i","B">>, <<"1","8","4","4","6","7","4","4","T","B">>, <<"1","6","7","7","7","2","1","5","T","i","B">>, <<"1","G","i","B">>, <<"1","0","G","i","B">>, <<"2","T","i","B">>, <<"+","5">>, <<" ","5">>} |->
        CASE t = <<"1","0","2","4">> -> <<1,0,2,4>>
          [] t = <<"1","8","4","4","6","7","4","4","0","7","3","7","0","9","5","5","1","6","1","5">> -> <<1,8,4,4,6,7,4,4,0,7,3,7,0,9,5,5,1,6,1,5>>
          [] t = <<"1","8","0","1","4","3","9","8","5","0","9","4","8","1","9","8","3","K","i","B">> -> <<1,8,4,4,6,7,4,4,0,7,3,7,0,9,5,5,0,5,9,2>>
          [] t = <<"1","8","4","4","6","7","4","4","T","B">> -> <<1,8,4,4,6,7,4,4,0,0,0,0,0,0,0,0,0,0,0,0>>
          [] t = <<"1","6","7","7","7","2","1","5","T","i","B">> -> <<1,8,4,4,6,7,4,2,9,7,4,1,9,7,9,2,3,8,4,0>>
          [] t = <<"1","G","i","B">> -> <<1,0,7,3,7,4,1,8,2,4>>
          [] t = <<"1","0","G","i","B">> -> <<1,0,7,3,7,4,1,8,2,4,0>>
          [] t = <<"2","T","i","B">> -> <<2,1,9,9,0,2,3,2,5,5,5,5,2>>
          [] t = <<"+","5">> -> <<5>>
          [] t = <<" ","5">> -> <<5>>]

\* the single argument of the call, and the size it bound
SizeToken == call.argv[2]
SizeBound == mem["root"][1]

SizeAccepted(digits) == result = NoConfig /\ SizeBound = digits

SizeRejected ==
    /\ result = "root"
    /\ cfg["root"].error = "Clags_Error_InvalidValue"
    /\ SizeBound = <<>>

\* the first run of decimal digits of the token
LeadingDigits(t) ==
    LET first == CHOOSE i \in 1..(Len(t) + 1) :
                    /\ (i = Len(t) + 1 \/ isdigit(t[i]))
                    /\ \A j \in 1..(i - 1) : ~isdigit(t[j])
        stop == CHOOSE i \in first..(Len(t) + 1) :
                    /\ (i = Len(t) + 1 \/ ~isdigit(t[i]))
                    /\ \A j \in first..(i - 1) : isdigit(t[j])
    IN [k \in 1..(stop - first) |-> DigitValue(t[first + k - 1])]

\* C21: the size verifier binds the magnitude times the factor of the unit (none
\* or B: 1, KiB, KB, MiB, MB, GiB, GB, TiB, TB, in any case except the bare B);
\* it rejects a token whose product is beyond 2^64-1, an unknown unit, and a
\* token without a leading magnitude; what it binds divides back to the
\* magnitude, so it is never a wrapped value.
C21_SizeIsMagnitudeTimesFactor ==
    (Returned /\ Len(call.argv) = 2) =>
        /\ \A n \in 0..SizeRange :
              /\ \A u \in SmallUnits :
                    SizeToken = ToDecimal(n) \o u
                        => SizeAccepted(SmallDigits(n * SmallFactor(u)))
              /\ \A u \in {<<"G","B">>, <<"T","B">>} :
                    SizeToken = ToDecimal(n) \o u
                        => SizeAccepted(Normalized(SmallDigits(n) \o [k \in 1..Zeros(u) |-> 0]))
              /\ \A u \in {<<"b">>, <<"X","B">>, <<"i","B">>} :
                    SizeToken = ToDecimal(n) \o u => SizeRejected
        /\ SizeToken \in DOMAIN SizeProducts => SizeAccepted(SizeProducts[SizeToken])
        /\ SizeToken \in {<<"1","8","4","4","6","7","4","4","0","7","3","7","0","9","5","5","1","6","1","6">>, <<"1","8","0","1","4","3","9","8","5","0","9","4","8","1","9","8","4","K","i","B">>, <<"1","8","4","4","6","7","4","5","T","B">>, <<"1","6","7","7","7","2","1","6","T","i","B">>, <<"K","i","B">>, <<>>, <<"-","5">>, <<"5"," ","K","B">>, <<"9","9","9","9","9","9","9","9","9","9","9","9","9","9","9","9","9","9","9","9","9","9","9">>} => SizeRejected
        /\ result = NoConfig =>
              LET unit == SizeUnit(Skip(SizeToken, strtoull10(SizeToken).end)) IN
              DivPower(SizeBound, unit.base, unit.power) = Normalized(LeadingDigits(SizeToken))

-----------------------------------------------------------------------------
(* C22 *)

\* the choice set of declaration i of the root, and the pointer its variable holds
ChoiceSet(i) ==
    [owner |-> <<"root", i>>, count |-> Len(world.configs["root"].args[i].data.items)]
ChoiceRef(m, i) ==
    IF m["root"][i] = 0 THEN NoChoice ELSE [owner |-> <<"root", i>>, index |-> m["root"][i]]

\* the entries of the set that equal the token, under the set's comparison
EntriesEqual(set, t) ==
    {j \in 1..Len(set.items) :
        IF set.case_insensitive THEN StrCaseEq(set.items[j], t) ELSE set.items[j] = t}

FirstOf(S) == CHOOSE j \in S : \A k \in S : j <= k

\* C22: a token that equals an entry of the choice set (case folded when the set
\* is case-insensitive, exactly otherwise) binds a pointer to the first such entry,
\* and clags_choice_index of the set and the bound pointer is that entry's index;
\* a token that equals no entry fails and leaves the target as it was;
\* clags_choice_index is -1 for a pointer into another set and when the set or
\* the pointer is NULL.
C22_ChoiceBindsFirstEqualEntry ==
    /\ [][ (Scanning /\ Running.positional_count = 0
              /\ Dispatch(RunningConfig, Running, NextToken) = "positional") =>
            IF EntriesEqual(RunningConfig.args[1].data, NextToken) /= {}
            THEN /\ pc' = "scan"
                 /\ mem'["root"][1] = FirstOf(EntriesEqual(RunningConfig.args[1].data, NextToken))
                 /\ clags_choice_index(ChoiceSet(1), ChoiceRef(mem', 1))
                        = FirstOf(EntriesEqual(RunningConfig.args[1].data, NextToken)) - 1
            ELSE /\ mem' = mem
                 /\ pc' = "return" /\ result' = "root"
                 /\ cfg'["root"].error = "Clags_Error_InvalidValue"
         ]_vars
    /\ [](/\ clags_choice_index(ChoiceSet(1), ChoiceRef(mem, 2)) = 0 - 1
          /\ clags_choice_index(ChoiceSet(2), ChoiceRef(mem, 1)) = 0 - 1
          /\ clags_choice_index(NoChoices, ChoiceRef(mem, 1)) = 0 - 1
          /\ clags_choice_index(ChoiceSet(1), NoChoice) = 0 - 1
          /\ mem["root"][2] /= 0 =>
                clags_choice_index(ChoiceSet(2), ChoiceRef(mem, 2)) = mem["root"][2] - 1)

\* --mode=red Red with case folding: the option holds entry 1 of its set, the
\* positional entry 0 of its own
C22_Witness ==
    /\ Returned
    /\ Called.args[1].data.case_insensitive
    /\ call.argv = <<ProgramName, <<"-","-","m","o","d","e","=","r","e","d">>, <<"R","e","d">>>>
    /\ result = NoConfig
    /\ clags_choice_index(ChoiceSet(1), ChoiceRef(mem, 1)) = 0
    /\ clags_choice_index(ChoiceSet(2), ChoiceRef(mem, 2)) = 1
    /\ clags_choice_index(ChoiceSet(1), ChoiceRef(mem, 2)) = 0 - 1

-----------------------------------------------------------------------------
(* C23 *)

TheList == mem["root"][1]

RECURSIVE IsDoubled(_)
IsDoubled(n) ==
    \/ n = CLAGS_LIST_INIT_CAPACITY
    \/ n > CLAGS_LIST_INIT_CAPACITY /\ n % 2 = 0 /\ IsDoubled(n \div 2)

\* C23: whatever appends were made, accepted or rejected, the count is at most
\* the capacity and the capacity is 0 or 8 doubled some number of times; an
\* append lowers neither, a rejected append leaves the count as it was, an
\* accepted one adds one, and only clags_list_free sets both back to 0.
C23_AccumulatorGrowsByDoubling ==
    /\ [](/\ TheList.count <= TheList.capacity
          /\ TheList.capacity = 0 \/ IsDoubled(TheList.capacity)
          /\ TheList.count = Len(TheList.items))
    /\ [][ /\ last'.rule = "append" =>
                /\ TheList'.capacity >= TheList.capacity
                /\ TheList'.count = TheList.count + (IF last'.exit THEN 0 ELSE 1)
           /\ (TheList'.count < TheList.count \/ TheList'.capacity < TheList.capacity) =>
                last'.rule = "free"
           /\ last'.rule = "free" => TheList'.count = 0 /\ TheList'.capacity = 0
         ]_vars

\* seventeen values were kept and one rejected at a full list of sixteen
C23_Witness ==
    /\ TheList.count = 17
    /\ TheList.capacity = 32
    /\ last.rule = "append" /\ last.exit

-----------------------------------------------------------------------------
(* C24 *)

LibShort == <<"-","l">>
LibLong == <<"-","-","l","i","b">>
LibLongEq == <<"-","-","l","i","b","=">>

\* the values the occurrences of the list option in argv[i..] give, in order: the
\* rest of the token for an attached value, the next token for a separate one; an
\* occurrence without a value and a token that is no occurrence end the scan
RECURSIVE OccurrenceValues(_, _)
OccurrenceValues(argv, i) ==
    IF i > Len(argv) THEN <<>>
    ELSE IF argv[i] \in {LibShort, LibLong}
    THEN IF i + 1 > Len(argv) THEN <<>>
         ELSE <<argv[i + 1]>> \o OccurrenceValues(argv, i + 2)
    ELSE IF HasPrefix(argv[i], LibLongEq)
    THEN <<Skip(argv[i], Len(LibLongEq))>> \o OccurrenceValues(argv, i + 1)
    ELSE IF HasPrefix(argv[i], LibShort)
    THEN <<Skip(argv[i], Len(LibShort))>> \o OccurrenceValues(argv, i + 1)
    ELSE <<>>

\* C24: the list behind a list-valued option holds one element for each
\* occurrence of the option, in the order of the occurrences, whether the value
\* was attached or separate and the option short or long; a value with commas is
\* one element, the whole value.
C24_ListOptionAppendsOnePerOccurrence ==
    Returned =>
        /\ mem["root"][1].items = OccurrenceValues(call.argv, 2)
        /\ mem["root"][1].count = Len(OccurrenceValues(call.argv, 2))

\* -l a,b --lib=a,b -lc: three elements, the first two with their commas
C24_Witness ==
    /\ Returned
    /\ result = NoConfig
    /\ call.argv = <<ProgramName, LibShort, <<"a",",","b">>, LibLongEq \o <<"a",",","b">>,
                     <<"-","l","c">>>>
    /\ mem["root"][1].items = << <<"a",",","b">>, <<"a",",","b">>, <<"c">> >>

-----------------------------------------------------------------------------
(* C25 *)

IsPrefixOf(s, t) == Len(s) <= Len(t) /\ SubSeq(t, 1, Len(s)) = s

LastOf(s, n) == SubSeq(s, Len(s) - n + 1, Len(s))

\* the arguments of the last call that are t, and those that are plain
CountOf(t) == Cardinality({j \in 2..Len(call.argv) : call.argv[j] = t})
PlainOf(argv) == SelectSeq(SubSeq(argv, 2, Len(argv)), LAMBDA t : t[1] /= "-")

\* C25: over any sequence of parses of one schema no step of a parse empties or
\* shortens a list or lowers a counting flag's counter or a list's capacity: a
\* list keeps its elements and a later parse appends after them, so that at the
\* return of a parse the lists end with that parse's values and the counter is at
\* least the occurrences in that parse.
C25_ParsesAccumulate ==
    /\ [][ /\ mem'["root"][1] >= mem["root"][1]
           /\ \A i \in {2, 3} :
                /\ IsPrefixOf(mem["root"][i].items, mem'["root"][i].items)
                /\ mem'["root"][i].count >= mem["root"][i].count
                /\ mem'["root"][i].capacity >= mem["root"][i].capacity
         ]_vars
    /\ [](Returned =>
            /\ result = NoConfig
            /\ mem["root"][1] >= CountOf(<<"-","v">>)
            /\ Len(mem["root"][2].items) >= CountOf(<<"-","l","x">>)
            /\ \A j \in 1..CountOf(<<"-","l","x">>) :
                  mem["root"][2].items[Len(mem["root"][2].items) + 1 - j] = <<"x">>
            /\ Len(mem["root"][3].items) >= Len(PlainOf(call.argv))
            /\ LastOf(mem["root"][3].items, Len(PlainOf(call.argv))) = PlainOf(call.argv))

\* the second parse of "-lx y" returned: each list holds its value twice, in order
C25_Witness ==
    /\ Returned
    /\ calls = MaxCalls - 2
    /\ call.argv = <<ProgramName, <<"-","l","x">>, <<"y">>>>
    /\ mem["root"][2].items = << <<"x">>, <<"x">> >>
    /\ mem["root"][3].items = << <<"y">>, <<"y">> >>

-----------------------------------------------------------------------------
(* C26 *)

\* the running config without its list terminator: the rules after the
\* terminator rule
LaterRules == [RunningConfig EXCEPT !.options.list_terminator = NULL]

AtTerminator ==
    /\ Scanning
    /\ RunningConfig.options.list_terminator /= NULL
    /\ Dispatch(RunningConfig, Running, NextToken) = "terminator"

\* C26: the token that equals the list terminator closes the list that is open,
\* moving the counters on once; while no list is open the token is handled as
\* the rules after the terminator rule handle it, as an option, a flag or a
\* positional value.
C26_TerminatorOnlyWhileListOpen ==
    [][ AtTerminator =>
          IF Running.in_list
          THEN /\ pc' = "scan"
               /\ ~stack'[Len(stack')].in_list
               /\ stack'[Len(stack')].positional_count = Running.positional_count + 1
               /\ stack'[Len(stack')].index = Running.index + 1
               /\ mem' = mem
          ELSE StepAgreesWith(ScanTokens(LaterRules, Machine(Running), 1))
      ]_vars

-----------------------------------------------------------------------------
(* C27 *)

\* the text of the next token after its "--"
LongName == Skip(NextToken, 2)

\* the options named N, the options N with the token "--N=v", the flags named N
OptionsNamed(N) ==
    {i \in 1..Len(RunningConfig.args) :
        RunningConfig.args[i].type = "Option" /\ RunningConfig.args[i].long_flag = N}
OptionsAssigned(R) ==
    {i \in 1..Len(RunningConfig.args) :
        /\ RunningConfig.args[i].type = "Option"
        /\ RunningConfig.args[i].long_flag /= NULL
        /\ HasPrefix(R, RunningConfig.args[i].long_flag \o <<"=">>)
        /\ Len(R) > Len(RunningConfig.args[i].long_flag) + 1}
FlagsNamed(N) ==
    {i \in 1..Len(RunningConfig.args) :
        RunningConfig.args[i].type = "Flag" /\ RunningConfig.args[i].long_flag = N}

\* the step binds value to declaration i and nothing else, and stays in the loop
BindsOnly(i, value) ==
    /\ pc' = "scan"
    /\ mem' = [mem EXCEPT !["root"][i] = value]

FailsInvalidOption ==
    /\ pc' = "return" /\ result' = "root"
    /\ cfg'["root"].error = "Clags_Error_InvalidOption"
    /\ mem' = mem

\* C27: while options are accepted, "--N" takes the next token as the value of
\* the option named exactly N and "--N=v" binds v to it, wherever the option is
\* declared and whether or not another option's name starts N; with no such
\* option the flag named exactly N is set, and with no such flag the parse fails
\* with InvalidOption.
C27_LongNameMatchedExactly ==
    [][ (Scanning /\ Dispatch(RunningConfig, Running, NextToken) = "long") =>
          IF OptionsNamed(LongName) /= {}
          THEN \E i \in OptionsNamed(LongName) :
                  IF Running.index + 1 < Argc(Running)
                  THEN /\ BindsOnly(i, Argv(Running, Running.index + 1))
                       /\ stack'[Len(stack')].index = Running.index + 2
                  ELSE FailsInvalidOption
          ELSE IF OptionsAssigned(LongName) /= {}
          THEN \E i \in OptionsAssigned(LongName) :
                  /\ BindsOnly(i, Skip(LongName, Len(RunningConfig.args[i].long_flag) + 1))
                  /\ stack'[Len(stack')].index = Running.index + 1
          ELSE IF FlagsNamed(LongName) /= {}
          THEN \E i \in FlagsNamed(LongName) :
                  /\ BindsOnly(i, TRUE)
                  /\ stack'[Len(stack')].index = Running.index + 1
          ELSE FailsInvalidOption
      ]_vars

\* --output=x --out y --outp with "out" declared first: each name went to its own
\* declaration
C27_Witness ==
    /\ Returned
    /\ result = NoConfig
    /\ Called.args[1].long_flag = <<"o","u","t">>
    /\ call.argv = <<ProgramName, <<"-","-","o","u","t","p","u","t","=","x">>,
                     <<"-","-","o","u","t">>, <<"y">>, <<"-","-","o","u","t","p">>>>
    /\ mem["root"] = << <<"y">>, TRUE, <<"x">> >>

-----------------------------------------------------------------------------
(* C28 *)

\* the next token names the option "out" and attaches no value to it
AwaitsValue ==
    /\ Scanning
    /\ \/ /\ Dispatch(RunningConfig, Running, NextToken) = "long"
          /\ NextToken = <<"-","-","o","u","t">>
       \/ /\ Dispatch(RunningConfig, Running, NextToken) = "short"
          /\ NextToken \in {<<"-","o">>, <<"-","v","o">>}

\* the arguments after the next token that do not start with the ignore prefix
ValueCandidates ==
    {j \in (Running.index + 1)..(Argc(Running) - 1) :
        ~HasPrefix(Argv(Running, j), RunningConfig.options.ignore_prefix)}

FirstCandidate == CHOOSE j \in ValueCandidates : \A k \in ValueCandidates : j <= k

\* C28: an option given without an attached value fails with InvalidOption and
\* leaves its target unwritten when no token or only ignored tokens follow;
\* otherwise the first token after it that is not ignored becomes its value as
\* it is, be it option-like, "--" or the list terminator, and the scan goes on
\* behind that token without dispatching it.
C28_ValueTakenVerbatim ==
    [][ AwaitsValue =>
          IF ValueCandidates = {}
          THEN /\ pc' = "return" /\ result' = "root"
               /\ cfg'["root"].error = "Clags_Error_InvalidOption"
               /\ mem'["root"][1] = mem["root"][1]
          ELSE /\ pc' = "scan"
               /\ mem'["root"][1] = Argv(Running, FirstCandidate)
               /\ mem'["root"][3] = mem["root"][3]
               /\ mem'["root"][2] = mem["root"][2] + (IF NextToken = <<"-","v","o">> THEN 1 ELSE 0)
               /\ stack'[Len(stack')].index = FirstCandidate + 1
               /\ stack'[Len(stack')].accept_options = Running.accept_options
               /\ stack'[Len(stack')].in_list = Running.in_list
               /\ stack'[Len(stack')].positional_count = Running.positional_count
      ]_vars

\* x -o !s :: : the ignored token is passed over, the option holds "::", and the
\* list that was open stays open with its one element
C28_Witness ==
    /\ pc = "scan"
    /\ call.argv = <<ProgramName, <<"x">>, <<"-","o">>, <<"!","s">>, ListTerminator>>
    /\ Running.index = 5
    /\ Running.in_list
    /\ mem["root"][1] = ListTerminator
    /\ mem["root"][3].items = << <<"x">> >>

\* --out !s: only an ignored token follows, the option is unwritten
C28_WitnessNoValue ==
    /\ Returned
    /\ call.argv = <<ProgramName, <<"-","-","o","u","t">>, <<"!","s">>>>
    /\ cfg["root"].error = "Clags_Error_InvalidOption"
    /\ mem["root"][1] = NULL

-----------------------------------------------------------------------------
(* C29 *)

\* options are accepted and the next token starts with one "-", not with "--"
AtDash ==
    /\ Scanning
    /\ Running.accept_options
    /\ NextToken[1] = "-"
    /\ ~(Len(NextToken) > 1 /\ NextToken[2] = "-")

FlagLetters == {"5", "v"}

TimesIn(t, ch) == Cardinality({p \in 2..Len(t) : t[p] = ch})

\* C29: while options are accepted, a token of "-" and a decimal digit is a
\* positional value and sets no flag, even with a flag of that digit declared; a
\* token of "-" and another character is a short group, which sets its flags
\* and fails with InvalidOption at a character that is no flag or option; the
\* token "-" alone fails with InvalidOption.
C29_DashDigitIsPositional ==
    [][ AtDash =>
          IF Len(NextToken) = 1
          THEN /\ pc' = "return" /\ result' = "root"
               /\ cfg'["root"].error = "Clags_Error_InvalidOption"
               /\ mem' = mem
          ELSE IF isdigit(NextToken[2])
          THEN /\ pc' = "scan"
               /\ mem' = [mem EXCEPT !["root"][3] =
                            [@ EXCEPT !.items = Append(@, NextToken),
                                      !.count = @ + 1,
                                      !.capacity = CLAGS_LIST_INIT_CAPACITY]]
          ELSE IF \A p \in 2..Len(NextToken) : NextToken[p] \in FlagLetters
          THEN /\ pc' = "scan"
               /\ mem' = [mem EXCEPT
                            !["root"][1] = @ \/ TimesIn(NextToken, "5") > 0,
                            !["root"][2] = @ + TimesIn(NextToken, "v")]
          ELSE /\ pc' = "return" /\ result' = "root"
               /\ cfg'["root"].error = "Clags_Error_InvalidOption"
               /\ mem'["root"][3] = mem["root"][3]
      ]_vars

\* -5 -v5 -x: "-5" is in the list and set no flag, "-v5" set both flags, "-x" failed
C29_Witness ==
    /\ Returned
    /\ call.argv = <<ProgramName, <<"-","5">>, <<"-","v","5">>, <<"-","x">>>>
    /\ mem["root"][3].items = << <<"-","5">> >>
    /\ mem["root"][1] /\ mem["root"][2] = 1
    /\ cfg["root"].error = "Clags_Error_InvalidOption"

-----------------------------------------------------------------------------
(* C30 *)

Least(a, b) == IF a <= b THEN a ELSE b

\* the counters of the locals f are within the declarations of their config
CountersSound(f) ==
    /\ f.positional_count <= Len(positional(world.configs[f.config]))
    /\ f.required_count = Least(f.positional_count, RequiredCount(world.configs[f.config]))

\* C30: in every state of a scan of a schema that passed validation, and after
\* the loop has counted a list left open, the count of positionals taken is at
\* most the number declared and the count of required ones taken is the smaller
\* of that count and the number of required positionals declared; once the scan
\* has reached the optional positionals it stays there until the call returns.
C30_CountersWithinDeclared ==
    /\ [](pc = "scan" =>
            /\ CountersSound(Running)
            /\ Running.index >= Argc(Running) =>
                  CountersSound(AfterLoop(RunningConfig, Machine(Running)).f))
    /\ [][ (pc = "scan" /\ pc' = "scan" /\ Running.parsing_optionals) =>
              stack'[Len(stack')].parsing_optionals ]_vars

\* required, optional, optional list with the terminator: x x x :: x has taken all
\* three and the scan stands at the fifth token with one required counted
C30_Witness ==
    /\ pc = "scan"
    /\ Len(RunningConfig.args) = 3
    /\ ~RunningConfig.args[1].optional /\ RunningConfig.args[2].optional
    /\ RunningConfig.args[3].is_list
    /\ Running.positional_count = 3
    /\ Running.required_count = 1
    /\ Running.parsing_optionals
    /\ ~Running.in_list

-----------------------------------------------------------------------------
(* C31 *)

\* the declaration the next positional token goes to, 0 if every slot is taken
PendingPositional ==
    IF Running.positional_count >= Len(positional(RunningConfig)) THEN 0
    ELSE positional(RunningConfig)[Running.positional_count + 1]

PendingIsList == PendingPositional /= 0 /\ RunningConfig.args[PendingPositional].is_list

\* C31: a token taken by a list-valued positional is appended to that list and
\* leaves the list open and both counters as they were, whether it is the first
\* element or a later one; the terminator of an open list moves both counters on
\* by one (the required one for a required list); at the end of the arguments an
\* open list counts once, so that a required list with an element, when it is
\* the last required positional, lets the parse succeed.
C31_ListCountsOncePerList ==
    /\ [][ (Scanning /\ Dispatch(RunningConfig, Running, NextToken) = "positional"
              /\ PendingIsList) =>
              /\ pc' = "scan"
              /\ stack'[Len(stack')].in_list
              /\ stack'[Len(stack')].positional_count = Running.positional_count
              /\ stack'[Len(stack')].required_count = Running.required_count
              /\ mem' = [mem EXCEPT ![Running.config][PendingPositional] =
                           AppendToList(@, Accept(NextToken))]
         ]_vars
    /\ [][ (Scanning /\ Dispatch(RunningConfig, Running, NextToken) = "terminator"
              /\ Running.in_list) =>
              /\ pc' = "scan"
              /\ ~stack'[Len(stack')].in_list
              /\ stack'[Len(stack')].positional_count = Running.positional_count + 1
              /\ stack'[Len(stack')].required_count = Running.required_count
                    + (IF RunningConfig.args[PendingPositional].optional THEN 0 ELSE 1)
         ]_vars
    /\ [][ (pc = "scan" /\ Running.index >= Argc(Running) /\ Running.in_list
              /\ ~RunningConfig.args[PendingPositional].optional
              /\ mem[Running.config][PendingPositional].count >= 1
              /\ Running.required_count + 1 = RequiredCount(RunningConfig)) =>
              /\ pc' = "return"
              /\ result' = NoConfig
              /\ cfg'[Running.config].error = "Clags_Error_Ok"
         ]_vars

\* x y :: -v x for two required lists: the first list has x y, the second x, and
\* the parse succeeded with the second list open at the end
C31_Witness ==
    /\ Returned
    /\ result = NoConfig
    /\ call.argv = <<ProgramName, <<"x">>, <<"y">>, ListTerminator, <<"x">>>>
    /\ Len(Called.args) = 3 /\ Called.args[3].is_list
    /\ mem["root"][1].items = << <<"x">>, <<"y">> >>
    /\ mem["root"][3].items = << <<"x">> >>

-----------------------------------------------------------------------------
(* C32 *)

\* the step enters the loop of a new clags_parse call
EntersParse == pc' = "scan" /\ Len(stack') = Len(stack) + 1

Entered == stack'[Len(stack')]

\* C32: when a parse call on a schema that passes validation starts, the schema's
\* name is the first of the call's arguments, its error is Ok, and its parent is
\* the schema the call was made from: none for a call by the program, even if
\* an earlier call of the program entered the schema as a child.
C32_RunFieldsStartFresh ==
    [][ EntersParse =>
          /\ cfg'[Entered.config].name = Entered.argv[1]
          /\ cfg'[Entered.config].error = "Clags_Error_Ok"
          /\ cfg'[Entered.config].parent =
                (IF stack = <<>> THEN NoConfig ELSE Running.config)
      ]_vars

-----------------------------------------------------------------------------
(* C33 *)

\* the running call hands the arguments behind its next token to a clags_parse
\* call on the schema c
CallsInto(c) ==
    /\ Scanning
    /\ LoopBody(RunningConfig, Machine(Running)).out = "call"
    /\ LoopBody(RunningConfig, Machine(Running)).callee.config = c

\* C33: the parent of a schema is set to P only by the step in which the call on
\* P hands the arguments behind a matched subcommand name to a parse of that
\* schema; this holds as well for a subcommand positional without a variable
\* and for a child that was marked invalid before.
C33_ParentOnlyByTransfer ==
    [][ \A c \in DOMAIN cfg :
          cfg'[c].parent /= cfg[c].parent =>
            /\ CallsInto(c)
            /\ cfg'[c].parent = Running.config
      ]_vars

-----------------------------------------------------------------------------
(* C34 *)

\* how often the next token gives the flag declared as a: its letter in a short
\* group, its name after "--"
FlagOccurrences(a) ==
    IF Dispatch(RunningConfig, Running, NextToken) = "short"
    THEN TimesIn(NextToken, a.short_flag)
    ELSE IF Dispatch(RunningConfig, Running, NextToken) = "long"
            /\ a.long_flag /= NULL /\ Skip(NextToken, 2) = a.long_flag
    THEN 1
    ELSE 0

\* the next token is a short group of letters of declared flags, or "--" and the
\* name of a declared flag
NamesFlags ==
    LET declared == {i \in 1..Len(RunningConfig.args) : RunningConfig.args[i].type = "Flag"}
    IN \/ /\ Dispatch(RunningConfig, Running, NextToken) = "short"
          /\ Len(NextToken) > 1
          /\ \A p \in 2..Len(NextToken) :
                \E i \in declared : RunningConfig.args[i].short_flag = NextToken[p]
       \/ /\ Dispatch(RunningConfig, Running, NextToken) = "long"
          /\ \E i \in declared : RunningConfig.args[i].long_flag = Skip(NextToken, 2)

\* the variable of a flag after n occurrences in the run of config c
FlagAfter(a, n, c, variable) ==
    IF n = 0 \/ ~a.variable THEN variable
    ELSE IF a.flag_type = "BoolFlag" THEN TRUE
    ELSE IF a.flag_type = "CountFlag" THEN variable + n
    ELSE c

\* C34: a token of flags (a short group, or a long flag name) leaves each bool
\* flag it names true, adds to each counting flag the number of times the token
\* names it, writes the running schema (the child after a subcommand name, the
\* root before) to each config flag it names, and changes nothing else; a flag
\* without a variable changes no variable.
C34_FlagEffects ==
    [][ (Scanning /\ NamesFlags) =>
          /\ pc' = "scan"
          /\ mem' = [mem EXCEPT ![Running.config] =
                       [i \in 1..Len(RunningConfig.args) |->
                          IF RunningConfig.args[i].type = "Flag"
                          THEN FlagAfter(RunningConfig.args[i],
                                         FlagOccurrences(RunningConfig.args[i]),
                                         Running.config, mem[Running.config][i])
                          ELSE mem[Running.config][i]]]
      ]_vars

\* -vvv -c go -vcn: the root counted 3 and holds itself, the child counted 1 and
\* holds itself
C34_Witness ==
    /\ Returned
    /\ result = NoConfig
    /\ call.argv = <<ProgramName, <<"-","v","v","v">>, <<"-","c">>, <<"g","o">>,
                     <<"-","v","c","n">>>>
    /\ mem["root"][2] = 3 /\ mem["root"][3] = "root" /\ mem["root"][4] = 0
    /\ mem["go"][1] = 1 /\ mem["go"][2] = "go" /\ mem["go"][3] = FALSE

-----------------------------------------------------------------------------
(* C35 *)

\* C35: a call entered through a subcommand name starts with the locals of a new
\* call, options accepted, whether or not the call it was made from accepted
\* options; while the child runs and when it returns, the locals of the call
\* below it stay as they were when the name was matched.
C35_ChildStartsAcceptingOptions ==
    /\ [][ EntersParse =>
              /\ Entered = Frame(Entered.config, Entered.argv)
              /\ Entered.accept_options
              /\ stack /= <<>> => stack'[Len(stack)] = Running
         ]_vars
    /\ [][ (Len(stack) = 2 /\ Len(stack') >= 1) => stack'[1] = stack[1] ]_vars

\* -- go -v x: the root had stopped accepting options when it matched "go"; the child
\* took -v as its flag and x as its positional
C35_Witness ==
    /\ pc = "scan"
    /\ Len(stack) = 2
    /\ ~stack[1].accept_options
    /\ Running.accept_options
    /\ Running.argv = << <<"g","o">>, <<"-","v">>, <<"x">> >>
    /\ Running.index = 3
    /\ mem["go"] = <<1, <<"x">>>>
    /\ mem["root"][1] = 0

-----------------------------------------------------------------------------
(* C36 *)

IsListTarget(K, i) == K.args[i].type \in {"Positional", "Option"} /\ K.args[i].is_list

Released(list) == list.count = 0 /\ list.capacity = 0 /\ list.items = <<>>

\* C36: clags_config_free(config) leaves every list of a positional or option of
\* that config, and the config's list of duplicated strings, with count 0 and
\* capacity 0, and leaves its other variables and every other config, the child
\* configs behind its subcommands among them, with their lists and duplicated
\* strings as they were.
C36_FreeResetsOwnListsOnly ==
    [][ last'.rule = "free" =>
          /\ \A i \in 1..Len(world.configs[last'.config].args) :
                IF IsListTarget(world.configs[last'.config], i)
                THEN Released(mem'[last'.config][i])
                ELSE mem'[last'.config][i] = mem[last'.config][i]
          /\ Released(cfg'[last'.config].allocs)
          /\ \A d \in DOMAIN world.configs \ {last'.config} :
                mem'[d] = mem[d] /\ cfg'[d] = cfg[d]
      ]_vars

\* after -lx go x the root was freed: its list and strings are gone, its string
\* option and the lists and strings of "go" are kept
C36_Witness ==
    /\ last.rule = "free" /\ last.config = "root"
    /\ call.argv = <<ProgramName, <<"-","l","x">>, <<"-","o","x">>, <<"g","o">>>>
    /\ Released(mem["root"][1]) /\ Released(cfg["root"].allocs)
    /\ mem["root"][2] = <<"x">>
    /\ cfg["go"].allocs.count = 1

-----------------------------------------------------------------------------
(* C37 *)

\* search_line has returned for a needle that is not empty
SearchedLine == tod.pc = "returned" /\ tod.needle # <<>>

\* the start positions, counted from 0, a left-to-right scan reports from p on when
\* it tries every position and resumes Len(needle) characters after a match
RECURSIVE NaiveScan(_, _, _)
NaiveScan(line, needle, p) ==
    IF p > Len(line) - Len(needle) THEN <<>>
    ELSE IF SubSeq(line, p + 1, p + Len(needle)) = needle
         THEN <<p>> \o NaiveScan(line, needle, p + Len(needle))
         ELSE NaiveScan(line, needle, p + 1)

\* every start position of the needle in the line, counted from 0
StartsOf(line, needle) ==
    {p \in 0..(Len(line) - Len(needle)) : SubSeq(line, p + 1, p + Len(needle)) = needle}

\* a proper prefix of the needle is also its suffix
SelfOverlaps(needle) ==
    \E k \in 1..(Len(needle) - 1) :
        SubSeq(needle, 1, k) = SubSeq(needle, Len(needle) - k + 1, Len(needle))

\* the start positions search_line printed, counted from 0, in the order printed
ReportedStarts == [k \in 1..Len(stdout) |-> stdout[k].column - 1]

\* C37: when search_line has returned for a non-empty needle, the start positions
\* it reported are exactly those of the naive left-to-right scan that resumes
\* needle_len characters after each match, in increasing order and each once; for
\* a needle that does not overlap itself they are all occurrences in the line.
C37_SearchLineIsNaiveScan ==
    SearchedLine =>
        /\ ReportedStarts = NaiveScan(tod.line, tod.needle, 0)
        /\ \A k \in 1..(Len(stdout) - 1) : ReportedStarts[k] < ReportedStarts[k + 1]
        /\ ~SelfOverlaps(tod.needle) =>
              {ReportedStarts[k] : k \in 1..Len(stdout)} = StartsOf(tod.line, tod.needle)

\* search_line returned after two matches of a needle that overlaps itself, with
\* an occurrence between them it does not report
C37_Witness ==
    /\ SearchedLine
    /\ SelfOverlaps(tod.needle)
    /\ Len(stdout) >= 2
    /\ Cardinality(StartsOf(tod.line, tod.needle)) > Len(stdout)

-----------------------------------------------------------------------------
(* C40 *)

\* the characters of the lines and needles searched, and one of no needle
SearchCharacters == SearchLetters \cup {"T", "O", "D", ":", "x", "z"}

\* every entry of the shift table of the needle lies in 1..needle_len
ShiftTableInRange ==
    \A ch \in SearchCharacters :
        setup_shift_table(tod.needle, Len(tod.needle), ch) \in 1..Len(tod.needle)

\* C40: for every line and non-empty needle, every shift-table entry of
\* search_line lies in 1..needle_len, each pass of the loop moves the scan
\* position forward by at least 1 and never past line_len, every character read
\* is at a position in 0..line_len-1, and the loop ends: search_line returns.
C40_SearchLineStaysInLine ==
    /\ [](tod.needle # <<>> =>
            /\ ShiftTableInRange
            /\ tod.reads \subseteq 0..(tod.line_len - 1)
            /\ tod.i \in 0..tod.line_len)
    /\ [][tod.pc = "loop" /\ tod'.pc = "loop" => tod'.i >= tod.i + 1]_vars
    /\ <>(tod.pc = "returned")

\* a pass compared the last window of the line, read the last character of the
\* line, found a mismatch and shifted by less than needle_len
C40_Witness ==
    /\ tod.pc = "loop"
    /\ stdout = <<>>
    /\ (tod.line_len - 1) \in tod.reads
    /\ tod.shift \in 1..(Len(tod.needle) - 1)
    /\ tod.i > tod.line_len - Len(tod.needle)

-----------------------------------------------------------------------------
(* C38 *)

\* the 1-based index of the physical line of the file that holds the character
\* at offset p (counted from 0): one more than the newlines before it
PhysicalLine(content, p) == 1 + Cardinality({k \in 1..p : content[k] = "\n"})

\* the 1-based column of the character at offset p within its physical line
PhysicalColumn(content, p) == p + 1 - Largest({0} \cup {k \in 1..p : content[k] = "\n"})

\* line and column of every occurrence of the needle in the file
MatchesOfFile(content, needle) ==
    {<<PhysicalLine(content, p), PhysicalColumn(content, p)>> :
        p \in {q \in StartsOf(content, needle) : content[q + 1] = needle[1]}}

\* line and column of every match printed so far
MatchesReported == {<<stdout[k].line_number, stdout[k].column>> : k \in 1..Len(stdout)}

\* C38: every match search_file reports carries the 1-based index of the physical
\* line that contains it and its 1-based column within that line, for lines of
\* any length, and when search_file has returned no occurrence of the needle in
\* the file is missing from the reports.
C38_MatchesCarryPhysicalLine ==
    tod.pc \in {"reading", "returned"} /\ tod.content # NULL =>
        /\ MatchesReported \subseteq MatchesOfFile(tod.content, tod.needle)
        /\ tod.pc = "returned" =>
              MatchesOfFile(tod.content, tod.needle) \subseteq MatchesReported

-----------------------------------------------------------------------------
(* C39 *)

\* the arguments after the program name, and how many of them main has taken
Arguments == Tail(tod.args)
Taken == Len(Arguments) - Len(tod.argv)

IsIgnoreArgument(a) == CharAt(a, 0) = "!"
IsHelpArgument(a) ==
    ~IsIgnoreArgument(a) /\ a \in {<<"-", "-", "h", "e", "l", "p">>, <<"-", "h">>}
IsDirectoryArgument(a) == ~IsIgnoreArgument(a) /\ ~IsHelpArgument(a)

\* the position of the first help argument, or one past the last argument
HelpPositions == {p \in 1..Len(Arguments) : IsHelpArgument(Arguments[p])}
StopPosition == IF HelpPositions = {} THEN Len(Arguments) + 1 ELSE Smallest(HelpPositions)

\* the positions of the directory arguments among the first n arguments, and the
\* k-th of them from the left
DirectoryPositions(n) == {p \in 1..n : IsDirectoryArgument(Arguments[p])}
NthPosition(S, k) == CHOOSE p \in S : Cardinality({q \in S : q < p}) = k - 1

\* the names given by the '!' arguments to the left of position p
IgnoredBefore(p) == {Tail(Arguments[q]) : q \in {r \in 1..(p - 1) : IsIgnoreArgument(Arguments[r])}}

\* the paths a search of the directory argument dirname has to open when the
\* names in names are skipped at every depth: the directory itself, and below it
\* every file and every directory whose name does not start with '.', reached
\* through such directories only, with no skipped name on the way
PathsToOpen(dirname, names) ==
    {PathString(e.path) : e \in
        {f \in FileSystem :
            /\ f.path[1] = dirname
            /\ \A i \in 2..Len(f.path) : f.path[i] \notin names
            /\ \A i \in 2..(Len(f.path) - 1) : CharAt(f.path[i], 0) # "."
            /\ \/ f.kind = "file"
               \/ f.kind = "dir" /\ (Len(f.path) = 1 \/ CharAt(f.path[Len(f.path)], 0) # ".")}}

\* main has shifted the program name and found at least one argument
InArguments == tod.pc \in {"loop", "defer", "exited"} /\ Len(tod.args) > 1

\* the searches made so far are those of the directory arguments taken so far,
\* from left to right, each with the names ignored to its left
SearchesMatchArguments ==
    /\ Len(tod.searches) = Cardinality(DirectoryPositions(Taken))
    /\ \A k \in 1..Len(tod.searches) :
          LET p == NthPosition(DirectoryPositions(Taken), k)
              search == tod.searches[k]
          IN /\ search.dirname = Arguments[p]
             /\ {search.ignore[i] : i \in 1..Len(search.ignore)} = IgnoredBefore(p)
             /\ {search.opened[i] : i \in 1..Len(search.opened)}
                    = PathsToOpen(search.dirname, IgnoredBefore(p))

\* C39: main takes its arguments strictly left to right.  Each directory
\* argument is searched with exactly the names of the '!' arguments to its left
\* as ignore set, and entries with such a name are skipped at every depth.  A
\* "--help" or "-h" argument prints the usage and ends the processing: the
\* directories to its left have been searched, no argument to its right is ever
\* taken.
C39_ArgumentsLeftToRight ==
    /\ [](InArguments =>
            /\ SearchesMatchArguments
            /\ Taken <= StopPosition
            /\ tod.pc = "exited" => Taken = (IF HelpPositions = {} THEN Len(Arguments)
                                                                    ELSE StopPosition)
            /\ tod.pc \in {"defer", "exited"} /\ HelpPositions # {} =>
                  /\ stdout # <<>>
                  /\ stdout[Len(stdout)] = [usage |-> ProgramName])
    /\ [][/\ tod.pc = "loop" /\ tod.argv # <<>> => tod'.argv = Tail(tod.argv)
          /\ tod.pc = "defer" => tod'.searches = tod.searches /\ tod'.argv = tod.argv
                                 /\ stdout' = stdout]_vars

\* main ended at a help argument: the directory to its left was searched with the
\* name ignored before it, which kept entries at two depths from being opened,
\* and the argument to the right of the help argument was never taken
C39_Witness ==
    /\ tod.pc = "exited"
    /\ HelpPositions # {}
    /\ tod.argv # <<>>
    /\ Len(tod.searches) = 1
    /\ tod.searches[1].ignore = << <<"k">> >>
    /\ \E i \in 1..Len(tod.searches[1].opened) :
          tod.searches[1].opened[i] = PathString(<< <<"d">>, <<"s">>, <<"b">> >>)

====
